---- MODULE Spec2Model ----
(***************************************************************************)
(* Markdown -> PDF converter (md2pdf): the conversion pipeline mdToPdf and *)
(* the outline synthesizer addBookmarksToPdf, in the two converter         *)
(* variants of the repository:                                             *)
(*   "server"  src/server/md2pdf-converter.js                              *)
(*   "cli"     src/unnamed/part_002 (lines 1-409)                          *)
(* Lengths are in 1/100 px so that the divisor 841.89 is an integer.       *)
(***************************************************************************)
EXTENDS Integers, Sequences, FiniteSets, TLC

VARIABLES
    variant,        \* which converter file the process runs
    entry,          \* per call: the function the caller invoked
    headings,       \* the module-level array `headings`
    onEntry,        \* per call: `headings` as mdToPdf found it on entry
    pc,             \* per call: the await point mdToPdf is suspended at
    md,             \* per call: the Markdown read from inputFile
    html,           \* per call: the heading elements of htmlContent
    cur,            \* per call: the loop variable `heading`
    iter,           \* per call: index of the array iterator over `headings`
    bookmarkData,   \* per call: the local array bookmarkData / argument bookmarks
    browser,        \* per call: the puppeteer browser instance
    page,           \* per call: the in-page script state
    pdfBuffer,      \* per call: page count of the buffer page.pdf returned (0: none)
    targetIdx,      \* per call: the index used to select pages[...] for each item
    outFile,        \* per call: the file at outputPath
    error,          \* per call: what mdToPdf rejected with ("none": nothing)
    waited,         \* per call: ms spent in the wait for the signal
    trail,          \* per call: the phases the conversion has entered
    srv,            \* the server: its request, handler and child process
    up,             \* the server: uploads and output paths of concurrent requests
    client          \* the browser client: the App object and its timers

vars == <<variant, entry, headings, onEntry, pc, md, html, cur, iter, bookmarkData, browser,
          page, pdfBuffer, targetIdx, outFile, error, waited, trail, srv, up, client>>

-----------------------------------------------------------------------------
(* Bounds                                                                  *)

\* largest page count page.pdf returns
MaxPages == 2

\* longest heading text and longest code block given to the renderer alone
MaxLen == 2

\* the call slots of one process; a slot is reused by later calls
Calls == {"A", "B"}

Variants == {"server", "cli"}

-----------------------------------------------------------------------------
(* Strings are sequences of characters                                     *)

WordChars == {"T", "S", "N", "i", "t", "l", "e", "u", "b", "o", "s", "n", "_",
              "1"}

\* String.prototype.toLowerCase, on the characters used
ToLowerChar(ch) ==
    CASE ch = "T" -> "t"
      [] ch = "S" -> "s"
      [] ch = "N" -> "n"
      [] ch = "M" -> "m"
      [] ch = "D" -> "d"
      [] OTHER -> ch

toLowerCase(s) == [i \in 1..Len(s) |-> ToLowerChar(s[i])]

\* the regular expression class \w
IsWord(ch) == ch \in WordChars

RECURSIVE SkipNonWord(_)
SkipNonWord(s) ==
    IF s = <<>> \/ IsWord(Head(s)) THEN s ELSE SkipNonWord(Tail(s))

\* mutant: /[^\w]/g, every character of a run replaced
RECURSIVE ReplaceNonWordEach(_)
ReplaceNonWordEach(s) ==
    IF s = <<>> THEN <<>>
    ELSE IF IsWord(Head(s)) THEN <<Head(s)>> \o ReplaceNonWordEach(Tail(s))
    ELSE <<"-">> \o ReplaceNonWordEach(Tail(s))

\* s.replace(/[^\w]+/g, '-')
RECURSIVE ReplaceNonWordRuns(_)
ReplaceNonWordRuns(s) ==
    IF s = <<>> THEN <<>>
    ELSE IF IsWord(Head(s)) THEN <<Head(s)>> \o ReplaceNonWordRuns(Tail(s))
    ELSE <<"-">> \o ReplaceNonWordRuns(SkipNonWord(Tail(s)))

\* const id = raw.toLowerCase().replace(/[^\w]+/g, '-')
AnchorId(raw) == ReplaceNonWordRuns(toLowerCase(raw))

-----------------------------------------------------------------------------
(* Markdown documents: a sequence of block tokens                          *)

Para == [kind |-> "para", level |-> 0, raw |-> <<>>]
H(l, t) == [kind |-> "heading", level |-> l, raw |-> t]
Code(t) == [kind |-> "code", level |-> 0, raw |-> t]

TitleText == <<"T", "i", "t", "l", "e">>
SubText == <<"S", "u", "b">>
NotesText == <<"N", "o", "t", "e", "s">>

DocPlain == <<Para>>
DocTitleSub == <<H(1, TitleText), Para, H(2, SubText)>>
DocNotes == <<H(2, NotesText), Para, H(2, NotesText), H(3, <<"S", " ", "!", "b">>)>>

\* "#" alone on its line is a heading with empty text
DocEmptyHeading == <<H(1, <<>>), Para, H(2, SubText)>>

\* a heading with a character outside Latin-1 (U+3042) and one inside
DocUnicode == <<H(1, <<"N", " ", "U+00E9", "U+3042">>)>>

Docs == {DocPlain, DocTitleSub, DocNotes, DocEmptyHeading, DocUnicode}

\* the sequences over S of length at most n
RECURSIVE SeqsUpTo(_, _)
SeqsUpTo(S, n) ==
    IF n = 0 THEN {<<>>}
    ELSE LET shorter == SeqsUpTo(S, n - 1)
         IN  shorter \cup {Append(t, x) : t \in shorter, x \in S}

\* heading texts and code blocks for the renderer alone
HeadingChars == {"N", "_", "1", " ", "!", "U+00E9"}
CodeChars == {"&", "<", ">", "U+0022", "'", "a", ";"}
Raws == SeqsUpTo(HeadingChars, MaxLen)
Codes ==
    SeqsUpTo(CodeChars, MaxLen)
      \cup {<<"&", "a", "m", "p", ";">>, <<"<", "a", ">", "&", "'">>}

\* documents of two headings, and documents of one code block
RenderDocs ==
    {<<H(1, r1), H(2, r2)>> : r1 \in Raws, r2 \in Raws}
      \cup {<<Code(t)>> : t \in Codes}

\* offsets getBoundingClientRect().top + scrollY may return, in 1/100 px
Offsets == {-100, 0, 85000, 90000, 180000}

-----------------------------------------------------------------------------
(* The Markdown renderer adapter                                           *)

\* renderer.heading: the record pushed to `headings`
HeadingRecord(tok) == [level |-> tok.level, text |-> tok.raw, id |-> AnchorId(tok.raw)]

\* renderer.heading: the element returned, <h${level} id="${id}">; its
\* inner HTML is left out
HeadingElement(tok) ==
    [tag |-> "h", level |-> tok.level, id |-> AnchorId(tok.raw), inner |-> <<>>]

\* the map of renderer.code (cli)
Entity(ch) ==
    CASE ch = "&" -> <<"&", "a", "m", "p", ";">>
      [] ch = "<" -> <<"&", "l", "t", ";">>
      [] ch = ">" -> <<"&", "g", "t", ";">>
      [] ch = "U+0022" -> <<"&", "q", "u", "o", "t", ";">>
      [] ch = "'" -> <<"&", "#", "3", "9", ";">>
      [] OTHER -> <<ch>>

\* code.replace(/[&<>"']/g, (char) => map[char]): one pass over the input
RECURSIVE EscapeCode(_)
EscapeCode(code) ==
    IF code = <<>> THEN <<>>
    ELSE Entity(Head(code)) \o EscapeCode(Tail(code))

\* renderer.code: what is put between <code ...> and </code>. cli: the
\* escaped code; server: ${code} as it came
RendererCode(v, code) == IF v = "cli" THEN EscapeCode(code) ELSE code

\* renderer.code: the element returned, <pre><code class=...>
CodeElement(v, tok) ==
    [tag |-> "code", level |-> 0, id |-> <<>>, inner |-> RendererCode(v, tok.raw)]

\* mutant: unshift instead of push
RECURSIVE ParsePushFront(_, _)
ParsePushFront(list, toks) ==
    IF toks = <<>> THEN list
    ELSE IF Head(toks).kind = "heading"
         THEN ParsePushFront(<<HeadingRecord(Head(toks))>> \o list, Tail(toks))
         ELSE ParsePushFront(list, Tail(toks))

\* headings.push(...) applied by marked.parse to each heading token in order
RECURSIVE ParsePush(_, _)
ParsePush(list, toks) ==
    IF toks = <<>> THEN list
    ELSE IF Head(toks).kind = "heading"
         THEN ParsePush(Append(list, HeadingRecord(Head(toks))), Tail(toks))
         ELSE ParsePush(list, Tail(toks))

\* htmlContent = marked.parse(markdown): the heading and code elements of
\* the output
RECURSIVE ParseHtml(_, _)
ParseHtml(v, toks) ==
    IF toks = <<>> THEN <<>>
    ELSE IF Head(toks).kind = "heading"
         THEN <<HeadingElement(Head(toks))>> \o ParseHtml(v, Tail(toks))
    ELSE IF Head(toks).kind = "code"
         THEN <<CodeElement(v, Head(toks))>> \o ParseHtml(v, Tail(toks))
         ELSE ParseHtml(v, Tail(toks))

\* mutant: the list is not emptied
ResetHeadingsKeep(list) == list

\* headings.length = 0
ResetHeadings(list) == <<>>

-----------------------------------------------------------------------------
NoHeading == [level |-> 0, text |-> <<>>, id |-> <<>>]
NoPage == [content |-> FALSE, math |-> "pending", hl |-> "pending",
           timer |-> FALSE, ready |-> FALSE]
NoFile == [written |-> FALSE, pages |-> <<>>, catalog |-> <<>>, objs |-> <<>>]

\* the server with no request in hand
NoRequest ==
    [pc |-> "idle", files |-> 0, i |-> 0, child |-> "none", code |-> "none",
     elapsed |-> 0, killed |-> {}, failed |-> {}, settled |-> <<>>,
     disk |-> {}, outputFiles |-> <<>>, response |-> "none", body |-> {},
     uploads |-> {}, inputFiles |-> <<>>, zip |-> FALSE, entries |-> <<>>]

\* the requests whose uploads the server handles at the same time
Requests == {"r1", "r2"}

\* a request of which nothing has arrived
NoUpload ==
    [pc |-> "idle", file |-> [originalname |-> <<>>, mimetype |-> ""],
     uploadPath |-> <<>>, outputPath |-> <<>>, answer |-> "none"]

\* no request is being uploaded; now is Date.now()
NoUploads == [now |-> 1, req |-> [r \in Requests |-> NoUpload]]

\* no event of the page has been handled yet
NoEvent == [ev |-> "init", id |-> 0, bar |-> 0, removed |-> <<>>]

\* the App object and the page after init(): no file selected, the button
\* enabled by reset(), no interval, the bar at 0. reqs are the calls of
\* converter.convert, live the intervals not cleared, progress the variable
\* of each interval's closure; picks counts the handleFiles events and last
\* is the event handled last, with the width of the bar before it if it set
\* the bar and the files it emptied selectedFiles of
NoClient ==
    [selectedFiles |-> <<>>, disabled |-> FALSE, reqs |-> <<>>,
     resetTimers |-> {}, hideTimers |-> {}, progressInterval |-> 0,
     live |-> {}, progress |-> <<>>, bar |-> 0, picks |-> 0,
     last |-> NoEvent]

Init ==
    /\ variant \in Variants
    /\ entry = [c \in Calls |-> "none"]
    /\ headings = <<>>
    /\ onEntry = [c \in Calls |-> <<>>]
    /\ pc = [c \in Calls |-> "idle"]
    /\ md = [c \in Calls |-> <<>>]
    /\ html = [c \in Calls |-> <<>>]
    /\ cur = [c \in Calls |-> NoHeading]
    /\ iter = [c \in Calls |-> 0]
    /\ bookmarkData = [c \in Calls |-> <<>>]
    /\ browser = [c \in Calls |-> "none"]
    /\ page = [c \in Calls |-> NoPage]
    /\ pdfBuffer = [c \in Calls |-> 0]
    /\ targetIdx = [c \in Calls |-> <<>>]
    /\ outFile = [c \in Calls |-> NoFile]
    /\ error = [c \in Calls |-> "none"]
    /\ waited = [c \in Calls |-> 0]
    /\ trail = [c \in Calls |-> <<>>]
    /\ srv = NoRequest
    /\ up = NoUploads
    /\ client = NoClient

-----------------------------------------------------------------------------
(* The rendered document and the page locator                              *)

Min(a, b) == IF a < b THEN a ELSE b
Max(a, b) == IF a > b THEN a ELSE b

\* the divisor of bookmark.top: 900 (server), 841.89 (cli), in 1/100 px
PageHeightServer == 900 * 100
PageHeightCli == 84189

PageHeight(v) == IF v = "server" THEN PageHeightServer ELSE PageHeightCli

\* mutant: Math.round instead of Math.floor
PageNumRound(v, top) == (2 * top + PageHeight(v)) \div (2 * PageHeight(v))

\* const pageNum = Math.floor(bookmark.top / <divisor>)
PageNum(v, top) == top \div PageHeight(v)

\* mutant: the index wraps around the page count instead of being clamped
TargetPageIdxWrap(v, top, n) == PageNum(v, top) % n

\* server: Math.min(pageNum, pages.length - 1)
\* cli:    Math.min(Math.max(0, pageNum), pages.length - 1)
TargetPageIdx(v, top, n) ==
    IF v = "server" THEN Min(PageNum(v, top), n - 1)
    ELSE Min(Max(0, PageNum(v, top)), n - 1)

\* the object number of pages[k].ref, k counted from 0
PageRef(k) == k + 1

\* PDFDocument.load(pdfBuffer): the document page.pdf rendered, with n pages
LoadDoc(n) ==
    [written |-> TRUE,
     pages |-> [k \in 1..n |-> PageRef(k - 1)],
     catalog |-> ("Type" :> "Catalog"),
     objs |-> [r \in 1..n |-> ("Type" :> "Page")]]

\* the characters with char codes 32 to 126, in order of their code; the
\* quotation mark, the backslash and the grave accent are written U+0022,
\* U+005C and U+0060
Ascii ==
    <<
      " ", "!", "U+0022", "#", "$", "%", "&", "'", "(", ")", "*", "+",
      ",", "-", ".", "/", "0", "1", "2", "3", "4", "5", "6", "7",
      "8", "9", ":", ";", "<", "=", ">", "?", "@", "A", "B", "C",
      "D", "E", "F", "G", "H", "I", "J", "K", "L", "M", "N", "O",
      "P", "Q", "R", "S", "T", "U", "V", "W", "X", "Y", "Z", "[",
      "U+005C", "]", "^", "_", "U+0060", "a", "b", "c", "d", "e", "f", "g",
      "h", "i", "j", "k", "l", "m", "n", "o", "p", "q", "r", "s",
      "t", "u", "v", "w", "x", "y", "z", "{", "|", "}", "~"
    >>

\* String.prototype.charCodeAt, on the characters used
CharCode(ch) ==
    CASE ch = "U+00E9" -> 233
      [] ch = "U+3042" -> 12354
      [] OTHER -> 31 + CHOOSE k \in DOMAIN Ascii : Ascii[k] = ch

\* String.fromCharCode for a code below 256
CharOfCode(n) ==
    IF n - 31 \in DOMAIN Ascii THEN Ascii[n - 31]
    ELSE IF n = 233 THEN "U+00E9"
    ELSE "U+00??"

HexDigits == <<"0", "1", "2", "3", "4", "5", "6", "7", "8", "9",
               "A", "B", "C", "D", "E", "F">>

IsHexDigit(ch) == \E k \in DOMAIN HexDigits : HexDigits[k] = ch

HexVal(ch) == (CHOOSE k \in DOMAIN HexDigits : HexDigits[k] = ch) - 1

\* num.toString(16).toUpperCase()
RECURSIVE ToHex(_)
ToHex(n) ==
    IF n < 16 THEN <<HexDigits[n + 1]>>
    ELSE ToHex(n \div 16) \o <<HexDigits[(n % 16) + 1]>>

\* pdf-lib toHexString: at least two digits
ToHexString(n) == IF n < 16 THEN <<"0">> \o ToHex(n) ELSE ToHex(n)

\* pdf-lib IsIrregular: white space, the delimiters and '#'
Irregular == {" ", "(", ")", "<", ">", "[", "]", "{", "}", "/", "%", "#"}

\* pdf-lib isRegularChar: codes '!' to '~' that are not irregular
IsRegularChar(ch) ==
    /\ CharCode(ch) >= 33
    /\ CharCode(ch) <= 126
    /\ ch \notin Irregular

\* pdf-lib decodeName, name.replace(/#([\dABCDEF]{2})/g, charFromHexCode);
\* also how a reader decodes a name it has parsed
RECURSIVE DecodeName(_)
DecodeName(s) ==
    IF s = <<>> THEN <<>>
    ELSE IF /\ Head(s) = "#"
            /\ Len(s) >= 3
            /\ IsHexDigit(s[2])
            /\ IsHexDigit(s[3])
         THEN <<CharOfCode(16 * HexVal(s[2]) + HexVal(s[3]))>>
                \o DecodeName(SubSeq(s, 4, Len(s)))
         ELSE <<Head(s)>> \o DecodeName(Tail(s))

\* the PDFName constructor: encodedName, without the leading '/': a regular
\* character as it is, any other as '#' and the hex digits of its code
RECURSIVE EncodeName(_)
EncodeName(s) ==
    IF s = <<>> THEN <<>>
    ELSE (IF IsRegularChar(Head(s)) THEN <<Head(s)>>
          ELSE <<"#">> \o ToHexString(CharCode(Head(s))))
           \o EncodeName(Tail(s))

\* context.obj(<string>) of pdf-lib is PDFName.of(<string>): a name object
\* whose encoded name is written to the file
ContextObjString(s) == [pdf |-> "Name", of |-> EncodeName(DecodeName(s))]

\* const outlineRef = context.nextRef(), the first reference allocated
OutlineRef(n) == n + 1

\* const itemRefs = bookmarks.map(() => context.nextRef()); i counted from 0
ItemRef(n, i) == n + 2 + i

\* mutant: Prev wired to the item itself (index off by one)
PrevLinkOffByOne(n, i) == IF i > 0 THEN ("Prev" :> ItemRef(n, i)) ELSE <<>>

\* mutant: Next wired without the test for the last item
NextLinkPastEnd(n, i, N) == ("Next" :> ItemRef(n, i + 1))

\* Prev and Next of itemDict for item i of N (i counted from 0)
PrevLink(n, i) == IF i > 0 THEN ("Prev" :> ItemRef(n, i - 1)) ELSE <<>>
NextLink(n, i, N) == IF i < N - 1 THEN ("Next" :> ItemRef(n, i + 1)) ELSE <<>>

\* itemDict of the loop body, for bookmarks[i] and the page index idx
ItemDict(n, i, N, bookmark, idx) ==
    ("Title" :> ContextObjString(bookmark.title))
    @@ ("Parent" :> OutlineRef(n))
    @@ ("Dest" :> <<PageRef(idx), "XYZ", "null", "pageHeight", "null">>)
    @@ PrevLink(n, i)
    @@ NextLink(n, i, N)

\* mutant: Last taken one past the end of itemRefs
OutlineDictLastPastEnd(n, N) ==
    ("Type" :> "Outlines")
    @@ ("First" :> ItemRef(n, 0))
    @@ ("Last" :> ItemRef(n, N))
    @@ ("Count" :> N)

\* outlineDict after the three outlineDict.set calls
OutlineDict(n, N) ==
    ("Type" :> "Outlines")
    @@ ("First" :> ItemRef(n, 0))
    @@ ("Last" :> ItemRef(n, N - 1))
    @@ ("Count" :> N)

\* the calls of context.nextRef and context.assign in the order the function
\* makes them for N bookmarks: outlineRef, the map over bookmarks, the assign
\* ending each turn of the loop, the assign of the outline dictionary
ContextOps(n, N) ==
    <<[op |-> "nextRef", ref |-> OutlineRef(n)]>>
    \o [i \in 1..N |-> [op |-> "nextRef", ref |-> ItemRef(n, i - 1)]]
    \o [i \in 1..N |-> [op |-> "assign", ref |-> ItemRef(n, i - 1)]]
    \o <<[op |-> "assign", ref |-> OutlineRef(n)]>>

\* pdfDoc.catalog.set(context.obj('Outlines'), outlineRef)
CatalogSet(catalog, n) == ("Outlines" :> OutlineRef(n)) @@ catalog

\* the page index of every bookmark, as the loop computes it
Indexes(v, bookmarks, n) ==
    [i \in 1..Len(bookmarks) |-> TargetPageIdx(v, bookmarks[i].top, n)]

\* the items whose pages[...] is undefined: page.ref throws a TypeError there
Throwing(idxs, n) == {i \in DOMAIN idxs : idxs[i] \notin 0..(n - 1)}

\* the document saved when the loop ends without a throw
WithOutline(v, n, bookmarks) ==
    LET N == Len(bookmarks)
        idxs == Indexes(v, bookmarks, n)
        doc == LoadDoc(n)
        new == [r \in (n + 1)..(n + 1 + N) |->
                  IF r = OutlineRef(n) THEN OutlineDict(n, N)
                  ELSE ItemDict(n, r - n - 2, N, bookmarks[r - n - 1], idxs[r - n - 1])]
    IN  [doc EXCEPT !.objs = new @@ doc.objs,
                    !.catalog = CatalogSet(doc.catalog, n)]

\* mutant: no early return for an empty list
SavedDocNoEmptyCheck(v, n, bookmarks) == WithOutline(v, n, bookmarks)

\* what addBookmarksToPdf saves: the loaded document as it is for an empty
\* list (the early return), else the document with the outline
SavedDoc(v, n, bookmarks) ==
    IF Len(bookmarks) = 0 THEN LoadDoc(n) ELSE WithOutline(v, n, bookmarks)

-----------------------------------------------------------------------------
(* mdToPdf: one action per stretch of code between two await points        *)

\* for (const heading of headings): the iterator's next() and what follows.
\* With a heading left, page.evaluate is called for it; else page.pdf is.
LoopNext(c, i) ==
    IF i < Len(headings)
    THEN /\ cur' = [cur EXCEPT ![c] = headings[i + 1]]
         /\ iter' = [iter EXCEPT ![c] = i + 1]
         /\ pc' = [pc EXCEPT ![c] = "evaluate"]
    ELSE /\ UNCHANGED <<cur, iter>>
         /\ pc' = [pc EXCEPT ![c] = "pdf"]

\* a call begins: readFileSync, headings.length = 0, marked.parse, the html
\* template, and puppeteer.launch is awaited
Start(c, docs) ==
    /\ trail' = [trail EXCEPT ![c] = <<"Pending", "Rendering", "Measuring">>]
    /\ UNCHANGED <<srv, up, client>>
    /\ pc[c] \in {"idle", "done", "failed"}
    /\ \E d \in docs :
         /\ md' = [md EXCEPT ![c] = d]
         /\ headings' = ParsePush(ResetHeadings(headings), d)
         /\ html' = [html EXCEPT ![c] = ParseHtml(variant, d)]
    /\ pc' = [pc EXCEPT ![c] = "launch"]
    /\ cur' = [cur EXCEPT ![c] = NoHeading]
    /\ iter' = [iter EXCEPT ![c] = 0]
    /\ bookmarkData' = [bookmarkData EXCEPT ![c] = <<>>]
    /\ browser' = [browser EXCEPT ![c] = "none"]
    /\ page' = [page EXCEPT ![c] = NoPage]
    /\ pdfBuffer' = [pdfBuffer EXCEPT ![c] = 0]
    /\ targetIdx' = [targetIdx EXCEPT ![c] = <<>>]
    /\ outFile' = [outFile EXCEPT ![c] = NoFile]
    /\ entry' = [entry EXCEPT ![c] = "mdToPdf"]
    /\ onEntry' = [onEntry EXCEPT ![c] = headings]
    /\ error' = [error EXCEPT ![c] = "none"]
    /\ waited' = [waited EXCEPT ![c] = 0]
    /\ UNCHANGED variant

\* a call begins and readFileSync throws: mdToPdf rejects before the reset
StartFails(c) ==
    /\ trail' = [trail EXCEPT ![c] = <<"Pending", "Failed">>]
    /\ UNCHANGED <<srv, up, client>>
    /\ pc[c] \in {"idle", "done", "failed"}
    /\ pc' = [pc EXCEPT ![c] = "failed"]
    /\ error' = [error EXCEPT ![c] = "readFileSync"]
    /\ entry' = [entry EXCEPT ![c] = "mdToPdf"]
    /\ onEntry' = [onEntry EXCEPT ![c] = headings]
    /\ md' = [md EXCEPT ![c] = <<>>]
    /\ html' = [html EXCEPT ![c] = <<>>]
    /\ cur' = [cur EXCEPT ![c] = NoHeading]
    /\ iter' = [iter EXCEPT ![c] = 0]
    /\ bookmarkData' = [bookmarkData EXCEPT ![c] = <<>>]
    /\ browser' = [browser EXCEPT ![c] = "none"]
    /\ page' = [page EXCEPT ![c] = NoPage]
    /\ pdfBuffer' = [pdfBuffer EXCEPT ![c] = 0]
    /\ targetIdx' = [targetIdx EXCEPT ![c] = <<>>]
    /\ outFile' = [outFile EXCEPT ![c] = NoFile]
    /\ waited' = [waited EXCEPT ![c] = 0]
    /\ UNCHANGED <<variant, headings>>

\* puppeteer.launch and browser.newPage resolve; page.setContent is called
Launch(c) ==
    /\ UNCHANGED <<trail, srv, up, client>>
    /\ pc[c] = "launch"
    /\ pc' = [pc EXCEPT ![c] = "setContent"]
    /\ browser' = [browser EXCEPT ![c] = "running"]
    /\ page' = [page EXCEPT ![c].content = TRUE]
    /\ UNCHANGED <<error, waited, variant, entry, headings, onEntry, md, html, cur, iter, bookmarkData,
                   pdfBuffer, targetIdx, outFile>>

\* page.setContent resolves; waitForSelector / waitForFunction is called
SetContent(c) ==
    /\ UNCHANGED <<trail, srv, up, client>>
    /\ pc[c] = "setContent"
    /\ pc' = [pc EXCEPT ![c] = "wait"]
    /\ UNCHANGED <<error, waited, variant, entry, headings, onEntry, md, html, cur, iter, bookmarkData,
                   browser, page, pdfBuffer, targetIdx, outFile>>

\* mutant: the wait is for any loaded body, not for the signal
ReadySignalAnyBody(p) == p.content

\* the condition waited for: 'body.render-complete' (server),
\* "window.status === 'ready'" (cli); both are set together by the page
ReadySignal(p) == p.ready

\* { timeout: 30000 } of waitForSelector, { timeout: 60000 } of waitForFunction
WaitTimeoutServer == 30000
WaitTimeoutCli == 60000

WaitTimeoutMs(v) == IF v = "server" THEN WaitTimeoutServer ELSE WaitTimeoutCli

\* time is counted in steps of the shorter timeout
TickMs == WaitTimeoutServer

\* mutant: { timeout: 0 }, which switches the timeout off
TimeoutElapsedNever(v, ms) == FALSE

\* the timeout of the wait has elapsed
TimeoutElapsed(v, ms) == ms >= WaitTimeoutMs(v)

\* an awaited call other than the wait rejects: mdToPdf rejects with its
\* error, nothing after the await runs
Reject(c) ==
    /\ trail' = [trail EXCEPT ![c] = Append(@, "Failed")]
    /\ UNCHANGED <<srv, up, client>>
    /\ pc[c] \in {"launch", "setContent", "evaluate", "pdf", "close"}
    /\ pc' = [pc EXCEPT ![c] = "failed"]
    /\ error' = [error EXCEPT ![c] = pc[c]]
    /\ UNCHANGED <<waited, variant, entry, headings, onEntry, md, html, cur, iter, bookmarkData,
                   browser, page, pdfBuffer, targetIdx, outFile>>

\* time passes while the signal is waited for
Tick(c) ==
    /\ UNCHANGED <<trail, srv, up, client>>
    /\ pc[c] = "wait"
    /\ waited[c] < WaitTimeoutMs(variant)
    /\ waited' = [waited EXCEPT ![c] = @ + TickMs]
    /\ UNCHANGED <<error, variant, entry, headings, onEntry, pc, md, html, cur, iter,
                   bookmarkData, browser, page, pdfBuffer, targetIdx, outFile>>

\* the timeout elapses without the signal: the wait rejects with a
\* TimeoutError and so does mdToPdf
WaitTimeout(c) ==
    /\ trail' = [trail EXCEPT ![c] = Append(@, "Failed")]
    /\ UNCHANGED <<srv, up, client>>
    /\ pc[c] = "wait"
    /\ ~ReadySignal(page[c])
    /\ TimeoutElapsed(variant, waited[c])
    /\ pc' = [pc EXCEPT ![c] = "failed"]
    /\ error' = [error EXCEPT ![c] = "TimeoutError"]
    /\ UNCHANGED <<waited, variant, entry, headings, onEntry, md, html, cur, iter,
                   bookmarkData, browser, page, pdfBuffer, targetIdx, outFile>>

\* the wait resolves on the signal. server: the 500 ms timer is awaited;
\* cli: the heading loop begins
WaitReady(c) ==
    /\ UNCHANGED <<trail, srv, up, client>>
    /\ pc[c] = "wait"
    /\ ReadySignal(page[c])
    /\ IF variant = "server"
       THEN /\ pc' = [pc EXCEPT ![c] = "settle"]
            /\ UNCHANGED <<cur, iter>>
       ELSE LoopNext(c, 0)
    /\ waited' = [waited EXCEPT ![c] = 0]
    /\ UNCHANGED <<error, variant, entry, headings, onEntry, md, html, bookmarkData, browser, page,
                   pdfBuffer, targetIdx, outFile>>

\* server: the 500 ms timer fires; the heading loop begins
Settle(c) ==
    /\ UNCHANGED <<trail, srv, up, client>>
    /\ pc[c] = "settle"
    /\ LoopNext(c, 0)
    /\ UNCHANGED <<error, waited, variant, entry, headings, onEntry, md, html, bookmarkData, browser, page,
                   pdfBuffer, targetIdx, outFile>>

\* mutant: a lookup that returned null counts as found
FoundAny(c, id) == TRUE

\* document.getElementById(id) in the page of call c finds an element
Found(c, id) == \E k \in DOMAIN html[c] : html[c][k].id = id /\ id # <<>>

\* bookmarkData.push({ title: heading.text, level: heading.level, top })
Push(list, heading, top) ==
    Append(list, [title |-> heading.text, level |-> heading.level, top |-> top])

\* what el.getBoundingClientRect().top + window.scrollY may be for the
\* element with this id: the layout is at rest, so an element measured
\* before in this loop (a heading with the same id) measures the same
TopsOf(c, id, offsets) ==
    LET prev == {bookmarkData[c][i].top :
                   i \in {j \in DOMAIN bookmarkData[c] :
                            AnchorId(bookmarkData[c][j].title) = id}}
    IN  IF prev = {} THEN offsets ELSE prev

\* page.evaluate resolves for the heading in `heading`; the loop goes on
Evaluate(c, offsets) ==
    /\ UNCHANGED <<trail, srv, up, client>>
    /\ pc[c] = "evaluate"
    /\ IF Found(c, cur[c].id)
       THEN \E top \in TopsOf(c, cur[c].id, offsets) :
              bookmarkData' = [bookmarkData EXCEPT ![c] = Push(@, cur[c], top)]
       ELSE UNCHANGED bookmarkData
    /\ LoopNext(c, iter[c])
    /\ UNCHANGED <<error, waited, variant, entry, headings, onEntry, md, html, browser, page, pdfBuffer,
                   targetIdx, outFile>>

\* page.pdf resolves with a document of n pages; browser.close is called
PrintPdf(c) ==
    /\ UNCHANGED <<trail, srv, up, client>>
    /\ pc[c] = "pdf"
    /\ \E n \in 1..MaxPages : pdfBuffer' = [pdfBuffer EXCEPT ![c] = n]
    /\ pc' = [pc EXCEPT ![c] = "close"]
    /\ UNCHANGED <<error, waited, variant, entry, headings, onEntry, md, html, cur, iter, bookmarkData,
                   browser, page, targetIdx, outFile>>

\* mutant: if (bookmarkData.length > 1)
NeedsOutlineOffByOne(bookmarks) == Len(bookmarks) > 1

\* if (bookmarkData.length > 0)
NeedsOutline(bookmarks) == Len(bookmarks) > 0

\* browser.close resolves; addBookmarksToPdf is called when there are
\* bookmarks, else the buffer is written as it is
CloseBrowser(c) ==
    /\ UNCHANGED <<srv, up, client>>
    /\ pc[c] = "close"
    /\ browser' = [browser EXCEPT ![c] = "closed"]
    /\ IF NeedsOutline(bookmarkData[c])
       THEN /\ pc' = [pc EXCEPT ![c] = "bookmarks"]
            /\ trail' = [trail EXCEPT ![c] = Append(@, "Synthesizing")]
            /\ UNCHANGED outFile
       ELSE /\ pc' = [pc EXCEPT ![c] = "done"]
            /\ trail' = [trail EXCEPT ![c] = Append(@, "Done")]
            /\ outFile' = [outFile EXCEPT ![c] = LoadDoc(pdfBuffer[c])]
    /\ UNCHANGED <<error, waited, variant, entry, headings, onEntry, md, html, cur, iter, bookmarkData,
                   page, pdfBuffer, targetIdx>>

-----------------------------------------------------------------------------
(* addBookmarksToPdf                                                       *)

\* the bookmark lists a direct caller passes
DirectTops == {-100, 85000}
DirectItems ==
    {[title |-> TitleText, level |-> 1, top |-> t] : t \in DirectTops}
    \cup {[title |-> SubText, level |-> 3, top |-> t] : t \in DirectTops}
DirectLists ==
    {<<>>} \cup {<<a>> : a \in DirectItems}
    \cup {<<a, b, a>> : a \in DirectItems, b \in DirectItems}

\* addBookmarksToPdf(pdfBuffer, outputPath, bookmarks) is called directly
DirectCall(c, lists) ==
    /\ trail' = [trail EXCEPT ![c] = <<>>]
    /\ UNCHANGED <<srv, up, client>>
    /\ pc[c] \in {"idle", "done", "failed"}
    /\ \E b \in lists : bookmarkData' = [bookmarkData EXCEPT ![c] = b]
    /\ \E n \in 1..MaxPages : pdfBuffer' = [pdfBuffer EXCEPT ![c] = n]
    /\ pc' = [pc EXCEPT ![c] = "bookmarks"]
    /\ entry' = [entry EXCEPT ![c] = "addBookmarksToPdf"]
    /\ md' = [md EXCEPT ![c] = <<>>]
    /\ html' = [html EXCEPT ![c] = <<>>]
    /\ cur' = [cur EXCEPT ![c] = NoHeading]
    /\ iter' = [iter EXCEPT ![c] = 0]
    /\ browser' = [browser EXCEPT ![c] = "none"]
    /\ page' = [page EXCEPT ![c] = NoPage]
    /\ targetIdx' = [targetIdx EXCEPT ![c] = <<>>]
    /\ outFile' = [outFile EXCEPT ![c] = NoFile]
    /\ onEntry' = [onEntry EXCEPT ![c] = <<>>]
    /\ error' = [error EXCEPT ![c] = "none"]
    /\ waited' = [waited EXCEPT ![c] = 0]
    /\ UNCHANGED <<variant, headings>>

\* the body of addBookmarksToPdf, from PDFDocument.load to writeFileSync
addBookmarksToPdf(c) ==
    /\ UNCHANGED <<srv, up, client>>
    /\ pc[c] = "bookmarks"
    /\ LET n == pdfBuffer[c]
           bookmarks == bookmarkData[c]
           idxs == Indexes(variant, bookmarks, n)
           bad == Throwing(idxs, n)
       IN  IF bad = {}
           THEN /\ outFile' = [outFile EXCEPT ![c] = SavedDoc(variant, n, bookmarks)]
                /\ targetIdx' = [targetIdx EXCEPT ![c] = idxs]
                /\ pc' = [pc EXCEPT ![c] = "done"]
                /\ trail' = [trail EXCEPT ![c] =
                       IF entry[c] = "mdToPdf" THEN Append(@, "Done") ELSE @]
                /\ UNCHANGED error
           ELSE /\ targetIdx' = [targetIdx EXCEPT ![c] =
                       SubSeq(idxs, 1, CHOOSE i \in bad : \A j \in bad : i <= j)]
                /\ pc' = [pc EXCEPT ![c] = "failed"]
                /\ error' = [error EXCEPT ![c] = "TypeError"]
                /\ trail' = [trail EXCEPT ![c] =
                       IF entry[c] = "mdToPdf" THEN Append(@, "Failed") ELSE @]
                /\ UNCHANGED outFile
    /\ UNCHANGED <<waited, variant, entry, headings, onEntry, md, html, cur, iter, bookmarkData,
                   browser, page, pdfBuffer>>

-----------------------------------------------------------------------------
(* The script of the page                                                  *)

\* the DOMContentLoaded handler. server: try { math; highlight } catch {}
\* finally { signal }. cli: try { math } catch {}; then Prism.highlightAll
\* and a 100 ms timer inside a promise executor, or resolve() without Prism;
\* the signal is set when the promise resolves
DOMContentLoaded(c) ==
    /\ UNCHANGED <<trail, srv, up, client>>
    /\ browser[c] = "running"
    /\ page[c].content
    /\ page[c].math = "pending"
    /\ \E m \in {"done", "threw"}, h \in {"done", "threw", "skipped"} :
         IF variant = "server"
         THEN /\ h # "skipped"
              /\ page' = [page EXCEPT ![c] =
                   [content |-> TRUE, math |-> m,
                    hl |-> IF m = "threw" THEN "skipped" ELSE h,
                    timer |-> FALSE, ready |-> TRUE]]
         ELSE page' = [page EXCEPT ![c] =
                   [content |-> TRUE, math |-> m, hl |-> h,
                    timer |-> (h = "done"), ready |-> (h = "skipped")]]
    /\ UNCHANGED <<error, waited, variant, entry, headings, onEntry, pc, md, html, cur, iter,
                   bookmarkData, browser, pdfBuffer, targetIdx, outFile>>

\* cli: the 100 ms timer resolves highlightPromise; window.status = 'ready'
TimerFires(c) ==
    /\ UNCHANGED <<trail, srv, up, client>>
    /\ browser[c] = "running"
    /\ page[c].timer
    /\ page' = [page EXCEPT ![c].timer = FALSE, ![c].ready = TRUE]
    /\ UNCHANGED <<error, waited, variant, entry, headings, onEntry, pc, md, html, cur, iter,
                   bookmarkData, browser, pdfBuffer, targetIdx, outFile>>

-----------------------------------------------------------------------------
(* The server: POST /api/convert and runMdToPdf                            *)

\* the converter's variables; a request leaves them to the child process
conv == <<variant, entry, headings, onEntry, pc, md, html, cur, iter, bookmarkData,
          browser, page, pdfBuffer, targetIdx, outFile, error, waited, trail>>

\* most files upload.array('markdowns') hands to one request
MaxFiles == 2

\* the call slot of the child process runMdToPdf spawns
Child == "A"

\* spawn(..., { timeout: 60000 })
SpawnTimeout == 60000

\* the response of the request has ended: an error answer was sent with
\* res.json, or the 'close' event of a streamed answer has been handled
RequestEnded(s) ==
    \/ s.pc = "ended"
    \/ s.pc = "responded" /\ s.response \in {"400", "500"}

\* a request arrives, multer having stored its n files in the uploads
\* directory; none: 400 NO_FILE
PostConvert(n) ==
    /\ srv.pc = "idle" \/ RequestEnded(srv)
    /\ srv' = IF n = 0
              THEN [NoRequest EXCEPT !.pc = "responded", !.response = "400"]
              ELSE [NoRequest EXCEPT !.pc = "loop", !.files = n, !.i = 1,
                                     !.uploads = 1..n]
    /\ UNCHANGED <<conv, up, client>>

\* runMdToPdf: spawn('node', ['md2pdf-converter.js', ...]); the child is a
\* new process, its module state is that of a fresh load
runMdToPdf ==
    /\ srv.pc = "loop"
    /\ srv' = [srv EXCEPT !.pc = "await", !.child = "running",
                          !.code = "none", !.elapsed = 0]
    /\ headings' = <<>>
    /\ entry' = [entry EXCEPT ![Child] = "none"]
    /\ onEntry' = [onEntry EXCEPT ![Child] = <<>>]
    /\ pc' = [pc EXCEPT ![Child] = "idle"]
    /\ md' = [md EXCEPT ![Child] = <<>>]
    /\ html' = [html EXCEPT ![Child] = <<>>]
    /\ cur' = [cur EXCEPT ![Child] = NoHeading]
    /\ iter' = [iter EXCEPT ![Child] = 0]
    /\ bookmarkData' = [bookmarkData EXCEPT ![Child] = <<>>]
    /\ browser' = [browser EXCEPT ![Child] = "none"]
    /\ page' = [page EXCEPT ![Child] = NoPage]
    /\ pdfBuffer' = [pdfBuffer EXCEPT ![Child] = 0]
    /\ targetIdx' = [targetIdx EXCEPT ![Child] = <<>>]
    /\ outFile' = [outFile EXCEPT ![Child] = NoFile]
    /\ error' = [error EXCEPT ![Child] = "none"]
    /\ waited' = [waited EXCEPT ![Child] = 0]
    /\ trail' = [trail EXCEPT ![Child] = <<>>]
    /\ UNCHANGED <<variant, up, client>>

\* the members of a sequence
Range(q) == {q[k] : k \in DOMAIN q}

\* cleanupFiles(files): every listed file that exists is unlinked; ins are
\* uploads, outs are output PDFs, z tells that zipFile is listed and set
cleanupFiles(s, ins, outs, z) ==
    [s EXCEPT !.uploads = @ \ ins, !.disk = @ \ outs,
              !.zip = IF z THEN FALSE ELSE @]

\* the catch block of the handler: cleanupFiles([...inputFiles,
\* ...outputFiles, zipFile]) and, no header being sent yet,
\* res.status(500).json(CONVERSION_FAILED)
Catch(s, outcome) ==
    [cleanupFiles(s, Range(s.inputFiles), Range(s.outputFiles), s.zip)
       EXCEPT !.pc = "responded", !.response = "500", !.body = {},
              !.failed = @ \cup {s.i}, !.settled = Append(@, outcome)]

\* child.on('error'): the process could not be started; runMdToPdf rejects
SpawnError ==
    /\ srv.pc = "loop"
    /\ srv' = Catch(srv, "rejected")
    /\ UNCHANGED <<conv, up, client>>

\* the child: node md2pdf-converter.js runs mdToPdf once
ChildStep(docs, offsets) ==
    /\ srv.child = "running"
    /\ \/ pc[Child] = "idle" /\ Start(Child, docs)
       \/ pc[Child] = "idle" /\ StartFails(Child)
       \/ Launch(Child)
       \/ SetContent(Child)
       \/ Reject(Child)
       \/ Tick(Child)
       \/ WaitTimeout(Child)
       \/ WaitReady(Child)
       \/ Settle(Child)
       \/ Evaluate(Child, offsets)
       \/ PrintPdf(Child)
       \/ CloseBrowser(Child)
       \/ addBookmarksToPdf(Child)
       \/ DOMContentLoaded(Child)
       \/ TimerFires(Child)

\* mutant: the catch handler of the command line leaves without a code
ExitCodeZero(p) == "0"

\* the exit code of the child: 0 when mdToPdf resolved, process.exit(1) in
\* the catch handler when it rejected
ExitCode(p) == IF p = "done" THEN "0" ELSE "1"

\* the output files on disk once the child of file i has ended
DiskAfter(s) == IF outFile[Child].written THEN s.disk \cup {s.i} ELSE s.disk

\* the child process ends by itself
ChildExit ==
    /\ srv.child = "running"
    /\ pc[Child] \in {"done", "failed"}
    /\ srv' = [srv EXCEPT !.child = "closed", !.code = ExitCode(pc[Child]),
                          !.disk = DiskAfter(srv)]
    /\ UNCHANGED <<conv, up, client>>

\* time passes while the child runs
ServerTick ==
    /\ srv.child = "running"
    /\ srv.elapsed < SpawnTimeout
    /\ srv' = [srv EXCEPT !.elapsed = @ + TickMs]
    /\ UNCHANGED <<conv, up, client>>

\* the timeout of spawn expires with the child still running: the child is
\* killed, its exit code is null
KillOnTimeout ==
    /\ srv.child = "running"
    /\ srv.elapsed >= SpawnTimeout
    /\ srv' = [srv EXCEPT !.child = "closed", !.code = "null",
                          !.killed = @ \cup {srv.i}, !.disk = DiskAfter(srv)]
    /\ UNCHANGED <<conv, up, client>>

\* mutant: if (code !== 1)
ResolvesOnNotOne(code) == code # "1"

\* child.on('close'): if (code === 0) resolve else reject
ResolvesOn(code) == code = "0"

\* mutant: if (outputFiles.length <= 2)
SingleFileUpToTwo(outputFiles) == Len(outputFiles) <= 2

\* if (outputFiles.length === 1)
SingleFile(outputFiles) == Len(outputFiles) = 1

\* the handler after the last file: one output is piped as application/pdf;
\* several are added to a ZIP in the order of outputFiles, the ZIP is
\* written to the outputs directory and piped as application/zip
Respond(s) ==
    IF SingleFile(s.outputFiles)
    THEN [s EXCEPT !.pc = "responded", !.response = "pdf",
                   !.body = {s.outputFiles[1]}]
    ELSE [s EXCEPT !.pc = "responded", !.response = "zip", !.zip = TRUE,
                   !.entries = s.outputFiles,
                   !.body = Range(s.outputFiles)]

\* child.on('close') settles runMdToPdf and the handler goes on: a rejection
\* or a missing output file goes to the catch block, else the output is
\* pushed and the loop goes to the next file or to the response
OnClose ==
    /\ srv.pc = "await"
    /\ srv.child = "closed"
    /\ srv' =
         IF ~ResolvesOn(srv.code) THEN Catch(srv, "rejected")
         ELSE IF srv.i \notin srv.disk THEN Catch(srv, "resolved")
         ELSE LET pushed == [srv EXCEPT !.outputFiles = Append(@, srv.i),
                                        !.inputFiles = Append(@, srv.i),
                                        !.settled = Append(@, "resolved"),
                                        !.child = "none"]
              IN  IF srv.i < srv.files
                  THEN [pushed EXCEPT !.pc = "loop", !.i = @ + 1]
                  ELSE Respond(pushed)
    /\ UNCHANGED <<conv, up, client>>

\* res.on('close') of a streamed answer, sent completely or cut by the
\* client: cleanupFiles of the inputs pushed, the outputs and the ZIP
ResClose ==
    /\ srv.pc = "responded"
    /\ srv.response \in {"pdf", "zip"}
    /\ srv' = [cleanupFiles(srv, Range(srv.inputFiles), Range(srv.outputFiles),
                            srv.zip)
                 EXCEPT !.pc = "ended"]
    /\ UNCHANGED <<conv, up, client>>

-----------------------------------------------------------------------------
(* The server: multer's fileFilter and the paths of the files              *)

\* the values Date.now() takes and those of Math.round(Math.random() * 1E9)
MaxNow == 2
Randoms == {1, 2}

\* path.extname: from the last dot to the end, empty without a dot or with
\* the only dot in front
extname(name) ==
    LET dots == {i \in 2..Len(name) : name[i] = "."}
    IN  IF dots = {} THEN <<>>
        ELSE SubSeq(name, CHOOSE i \in dots : \A j \in dots : j <= i, Len(name))

\* path.parse(name).name: the name without its extension
ParseName(name) == SubSeq(name, 1, Len(name) - Len(extname(name)))

\* CONFIG.ALLOWED_EXTENSIONS and CONFIG.ALLOWED_MIMETYPES
ALLOWED_EXTENSIONS ==
    {<<".", "m", "d">>, <<".", "m", "a", "r", "k", "d", "o", "w", "n">>}
ALLOWED_MIMETYPES == {"text/markdown", "text/x-markdown", "text/plain"}

isValidExt(file) == toLowerCase(extname(file.originalname)) \in ALLOWED_EXTENSIONS

\* ALLOWED_MIMETYPES.includes(file.mimetype) || !file.mimetype
isValidMime(file) == file.mimetype \in ALLOWED_MIMETYPES \/ file.mimetype = ""

\* fileFilter: if (isValidExt || isValidMime) cb(null, true)
fileFilter(file) == isValidExt(file) \/ isValidMime(file)

\* sanitizeFilename: the characters <>:"/\|?* and each run of white space
\* become _, each run of dots one dot
SpecialChars == {"<", ">", ":", "U+0022", "/", "U+005C", "|", "?", "*"}

ReplaceSpecial(s) ==
    [i \in 1..Len(s) |-> IF s[i] \in SpecialChars THEN "_" ELSE s[i]]

RECURSIVE ReplaceSpaceRuns(_)
ReplaceSpaceRuns(s) ==
    IF s = <<>> THEN <<>>
    ELSE IF Head(s) # " " THEN <<Head(s)>> \o ReplaceSpaceRuns(Tail(s))
    ELSE IF Len(s) > 1 /\ s[2] = " " THEN ReplaceSpaceRuns(Tail(s))
    ELSE <<"_">> \o ReplaceSpaceRuns(Tail(s))

RECURSIVE ReplaceDotRuns(_)
ReplaceDotRuns(s) ==
    IF s = <<>> THEN <<>>
    ELSE IF Head(s) = "." /\ Len(s) > 1 /\ s[2] = "."
         THEN ReplaceDotRuns(Tail(s))
    ELSE <<Head(s)>> \o ReplaceDotRuns(Tail(s))

sanitizeFilename(filename) ==
    ReplaceDotRuns(ReplaceSpaceRuns(ReplaceSpecial(filename)))

\* the uploads of the requests: name and type as the client sends them
UploadFiles ==
    {[originalname |-> <<"a", ".", "m", "d">>, mimetype |-> "text/markdown"],
     [originalname |-> <<"a", ".", "M", "D">>, mimetype |-> "application/octet-stream"],
     [originalname |-> <<"a", "?", ".", "m", "d">>, mimetype |-> "text/plain"],
     [originalname |-> <<"x", ".", "e", "x", "e">>, mimetype |-> "text/plain"],
     [originalname |-> <<"x", ".", "e", "x", "e">>, mimetype |-> ""],
     [originalname |-> <<"x", ".", "e", "x", "e">>, mimetype |-> "application/octet-stream"]}

\* upload.array('markdowns') for the file of request r: fileFilter, then the
\* filename of diskStorage, fieldname-Date.now()-random.ext; a refused file
\* reaches the error middleware, which answers 400 INVALID_FILE_TYPE
Upload(r, file, rnd) ==
    /\ up.req[r].pc \in {"idle", "answered"}
    /\ up' = [up EXCEPT !.req[r] =
           IF fileFilter(file)
           THEN [NoUpload EXCEPT !.pc = "stored", !.file = file,
                    !.uploadPath = <<"markdowns", up.now, rnd,
                                     extname(file.originalname)>>]
           ELSE [NoUpload EXCEPT !.pc = "answered", !.file = file,
                    !.answer = "INVALID_FILE_TYPE"]]
    /\ UNCHANGED <<conv, srv, client>>

\* the handler of request r reaches its file: outputFile is
\* Date.now()-sanitizeFilename(name.pdf), and runMdToPdf is awaited
ConvertStart(r) ==
    /\ up.req[r].pc = "stored"
    /\ up' = [up EXCEPT !.req[r].pc = "converting",
                        !.req[r].outputPath =
                            <<up.now,
                              sanitizeFilename(
                                  ParseName(up.req[r].file.originalname)
                                  \o <<".", "p", "d", "f">>)>>]
    /\ UNCHANGED <<conv, srv, client>>

\* the conversion of request r has ended and its answer is sent
ConvertEnd(r) ==
    /\ up.req[r].pc = "converting"
    /\ up' = [up EXCEPT !.req[r].pc = "answered", !.req[r].answer = "pdf"]
    /\ UNCHANGED <<conv, srv, client>>

\* a millisecond passes
ClockTick ==
    /\ up.now < MaxNow
    /\ up' = [up EXCEPT !.now = @ + 1]
    /\ UNCHANGED <<conv, srv, client>>

-----------------------------------------------------------------------------
(* The browser client: App, FileHandler, UIController                      *)

\* most handleFiles events and most requests of one page
MaxPicks == 2
MaxConverts == 2

\* static MAX_MB = 50; sizes are counted in MB
MAX_MB == 50

\* the string s ends with t
EndsWith(s, t) ==
    IF Len(s) < Len(t) THEN FALSE
    ELSE SubSeq(s, Len(s) - Len(t) + 1, Len(s)) = t

\* VALID_EXTENSIONS = /\.(md|markdown)$/i
VALID_EXTENSIONS(name) ==
    \/ EndsWith(toLowerCase(name), <<".", "m", "d">>)
    \/ EndsWith(toLowerCase(name),
                <<".", "m", "a", "r", "k", "d", "o", "w", "n">>)

isValidExtension(file) == file.name # <<>> /\ VALID_EXTENSIONS(file.name)

\* mutant: no test of the size
isValidSizeAny(file) == TRUE

isValidSize(file) == file.size <= MAX_MB

\* the files the user can pick: a.md and b.MD of 30 MB, g.md of 60 MB,
\* t.txt of 1 MB
FileA == [name |-> <<"a", ".", "m", "d">>, size |-> 30]
FileB == [name |-> <<"b", ".", "M", "D">>, size |-> 30]
FileG == [name |-> <<"g", ".", "m", "d">>, size |-> 60]
FileT == [name |-> <<"t", ".", "t", "x", "t">>, size |-> 1]

\* the FileList of one drop or one choice in the file dialog
FileLists ==
    {<<FileA>>, <<FileG>>, <<FileA, FileB>>, <<FileT, FileB>>}

\* the File objects of the k-th event: new objects each time
Picked(files, k) ==
    [i \in 1..Len(files) |->
        [name |-> files[i].name, size |-> files[i].size, pick |-> k]]

IsValidFile(file) == isValidExtension(file) /\ isValidSize(file)

\* clearInterval(this.progressInterval); this.progressInterval = null
stopProgress(a) ==
    [a EXCEPT !.live = @ \ {a.progressInterval}, !.progressInterval = 0]

\* handleFiles(files): the valid files are pushed and the button enabled
handleFiles(files) ==
    /\ client.picks < MaxPicks
    /\ LET k == client.picks + 1
           validFiles == SelectSeq(Picked(files, k), IsValidFile)
           seen == [client EXCEPT !.picks = k,
                       !.last = [ev |-> "handleFiles", id |-> k,
                                 bar |-> 0, removed |-> <<>>]]
       IN  client' =
             IF validFiles = <<>> THEN seen
             ELSE [seen EXCEPT !.selectedFiles = @ \o validFiles,
                               !.disabled = FALSE]
    /\ UNCHANGED <<conv, srv, up>>

\* selectedFiles.splice(index, 1)
Splice(q, index) ==
    SubSeq(q, 1, index) \o SubSeq(q, index + 2, Len(q))

\* handleRemoveFile(index), from the remove button of a listed file; both
\* branches enable the button (enableConvertBtn, resetConvertBtn)
handleRemoveFile(index) ==
    /\ index \in 0..(Len(client.selectedFiles) - 1)
    /\ client' = [client EXCEPT
           !.selectedFiles = Splice(@, index),
           !.disabled = FALSE,
           !.last = [ev |-> "handleRemoveFile", id |-> index,
                     bar |-> 0, removed |-> <<>>]]
    /\ UNCHANGED <<conv, srv, up>>

\* a click on the convert button, which a disabled button does not
\* dispatch: handleConvert up to the await. Without files only a status is
\* shown; else setProcessingState, showProgress, simulateProgress and
\* converter.convert(this.selectedFiles, outputName), which builds the
\* request from the files selected now
handleConvert ==
    /\ ~client.disabled
    /\ Len(client.reqs) < MaxConverts
    /\ LET id == Len(client.reqs) + 1
       IN  client' =
             IF client.selectedFiles = <<>>
             THEN [client EXCEPT !.last = [ev |-> "noFiles", id |-> 0,
                                           bar |-> 0, removed |-> <<>>]]
             ELSE [client EXCEPT
                     !.disabled = TRUE,
                     !.bar = 0,
                     !.progress = Append(@, 0),
                     !.live = @ \cup {id},
                     !.progressInterval = id,
                     !.reqs = Append(@, [files |-> client.selectedFiles,
                                         state |-> "pending"]),
                     !.last = [ev |-> "handleConvert", id |-> id,
                               bar |-> client.bar, removed |-> <<>>]]
    /\ UNCHANGED <<conv, srv, up>>

\* Math.random() * (20 - 5) + 5, a middle and a large value of it
Increments == {12, 19}

\* the callback of the interval of request k: progress grows, is held at 80
\* with stopProgress(), and the bar is set to it
IntervalTick(k) ==
    /\ k \in client.live
    /\ \E inc \in Increments :
         LET p == client.progress[k] + inc
             a == IF p > 80 THEN stopProgress(client) ELSE client
             q == IF p > 80 THEN 80 ELSE p
         IN  client' = [a EXCEPT !.progress[k] = q,
                                 !.bar = Min(q, 100),
                                 !.last = [ev |-> "tick", id |-> k,
                                           bar |-> client.bar,
                                           removed |-> <<>>]]
    /\ UNCHANGED <<conv, srv, up>>

\* converter.convert of request k resolves: completeProgress, download, the
\* 10 s timer of reset() and, in finally, the 2 s timer of hideProgress()
ConvertResolves(k) ==
    /\ k \in DOMAIN client.reqs
    /\ client.reqs[k].state = "pending"
    /\ client' = [stopProgress(client) EXCEPT
           !.bar = 100,
           !.reqs[k].state = "ok",
           !.resetTimers = @ \cup {k},
           !.hideTimers = @ \cup {k},
           !.last = [ev |-> "resolved", id |-> k, bar |-> client.bar,
                     removed |-> <<>>]]
    /\ UNCHANGED <<conv, srv, up>>

\* converter.convert of request k rejects (fetch failed, answer not ok,
\* wrong type): the catch block shows the error and resets the button;
\* finally sets the 2 s timer of hideProgress()
ConvertRejects(k) ==
    /\ k \in DOMAIN client.reqs
    /\ client.reqs[k].state = "pending"
    /\ client' = [client EXCEPT
           !.disabled = FALSE,
           !.reqs[k].state = "failed",
           !.hideTimers = @ \cup {k},
           !.last = [ev |-> "rejected", id |-> k, bar |-> 0,
                     removed |-> <<>>]]
    /\ UNCHANGED <<conv, srv, up>>

\* setTimeout(() => this.ui.hideProgress(), 2000) of request k fires
HideProgressTimer(k) ==
    /\ k \in client.hideTimers
    /\ client' = [client EXCEPT
           !.hideTimers = @ \ {k},
           !.bar = 0,
           !.last = [ev |-> "hideProgress", id |-> k, bar |-> client.bar,
                     removed |-> <<>>]]
    /\ UNCHANGED <<conv, srv, up>>

\* setTimeout(() => { this.reset(); }, 10000) of request k fires, after the
\* 2 s timer set with it: selectedFiles = [], stopProgress, hideProgress,
\* resetConvertBtn
ResetTimer(k) ==
    /\ k \in client.resetTimers
    /\ k \notin client.hideTimers
    /\ client' = [stopProgress(client) EXCEPT
           !.resetTimers = @ \ {k},
           !.selectedFiles = <<>>,
           !.bar = 0,
           !.disabled = FALSE,
           !.last = [ev |-> "reset", id |-> k, bar |-> client.bar,
                     removed |-> client.selectedFiles]]
    /\ UNCHANGED <<conv, srv, up>>

-----------------------------------------------------------------------------
(* Specifications                                                          *)

\* calls of one process run one after another
Sequential == {"A"}

Next ==
    \E c \in Sequential :
        \/ Start(c, Docs)
        \/ StartFails(c)
        \/ Launch(c)
        \/ SetContent(c)
        \/ Reject(c)
        \/ Tick(c)
        \/ WaitTimeout(c)
        \/ WaitReady(c)
        \/ Settle(c)
        \/ Evaluate(c, Offsets)
        \/ PrintPdf(c)
        \/ CloseBrowser(c)
        \/ DirectCall(c, DirectLists)
        \/ addBookmarksToPdf(c)
        \/ DOMContentLoaded(c)
        \/ TimerFires(c)

Spec == Init /\ [][Next]_vars

\* the timers of the wait run: time passes while the wait is pending, and
\* the wait settles once the signal is seen or the timeout has elapsed
WaitFairness ==
    \A c \in Sequential :
        /\ WF_vars(Tick(c))
        /\ WF_vars(WaitTimeout(c) \/ WaitReady(c))

SpecLive == Spec /\ WaitFairness

\* marked.parse alone, on many heading texts and code blocks: the call
\* begins and stays at its first await
NextRender == \E c \in Sequential : Start(c, RenderDocs)

SpecRender == Init /\ [][NextRender]_vars

\* the server handling one request after another, each file converted by
\* a child process; inputs from smaller sets
ChildDocs == {DocPlain, DocTitleSub}
ChildOffsets == {-100, 90000}

NextServer ==
    \/ \E n \in 0..MaxFiles : PostConvert(n)
    \/ runMdToPdf
    \/ SpawnError
    \/ ChildStep(ChildDocs, ChildOffsets)
    \/ ChildExit
    \/ ServerTick
    \/ KillOnTimeout
    \/ OnClose
    \/ ResClose

\* the page of the client: the user's events, the answers and the timers.
\* The ticks of the intervals are left to SpecProgress: they touch the bar,
\* progress and the intervals only
NextClient ==
    \/ \E files \in FileLists : handleFiles(files)
    \/ \E index \in 0..(2 * MaxPicks) : handleRemoveFile(index)
    \/ handleConvert
    \/ \E k \in 1..MaxConverts :
         \/ ConvertResolves(k)
         \/ ConvertRejects(k)
         \/ HideProgressTimer(k)
         \/ ResetTimer(k)

SpecClient == Init /\ [][NextClient]_vars

\* the progress bar of the page: one file is chosen, then requests, ticks,
\* answers and timers
NextProgress ==
    \/ handleFiles(<<FileA>>)
    \/ handleConvert
    \/ \E k \in 1..MaxConverts :
         \/ IntervalTick(k)
         \/ ConvertResolves(k)
         \/ ConvertRejects(k)
         \/ HideProgressTimer(k)
         \/ ResetTimer(k)

SpecProgress == Init /\ [][NextProgress]_vars

\* the uploads of two requests handled side by side
NextUpload ==
    \/ \E r \in Requests, file \in UploadFiles, rnd \in Randoms :
         Upload(r, file, rnd)
    \/ \E r \in Requests : ConvertStart(r)
    \/ \E r \in Requests : ConvertEnd(r)
    \/ ClockTick

SpecUpload == Init /\ [][NextUpload]_vars

SpecServer == Init /\ [][NextServer]_vars

\* the timer of spawn fires and the close event of an ended child is
\* delivered
ServerFairness == WF_vars(KillOnTimeout) /\ WF_vars(OnClose)

SpecServerLive == SpecServer /\ ServerFairness

\* calls of one process in progress at the same time, interleaved at the
\* await points; inputs from smaller sets
ConcDocs == {DocPlain, DocTitleSub}
ConcOffsets == {90000}

NextConc ==
    \E c \in Calls :
        \/ Start(c, ConcDocs)
        \/ StartFails(c)
        \/ Launch(c)
        \/ SetContent(c)
        \/ Reject(c)
        \/ Tick(c)
        \/ WaitTimeout(c)
        \/ WaitReady(c)
        \/ Settle(c)
        \/ Evaluate(c, ConcOffsets)
        \/ PrintPdf(c)
        \/ CloseBrowser(c)
        \/ DirectCall(c, {<<>>})
        \/ addBookmarksToPdf(c)
        \/ DOMContentLoaded(c)
        \/ TimerFires(c)

SpecConc == Init /\ [][NextConc]_vars

-----------------------------------------------------------------------------
(* Properties of the outline addBookmarksToPdf writes                      *)

\* addBookmarksToPdf has returned in call c
Returned(c) == pc[c] = "done" /\ outFile[c].written

\* the references met from r along Next, at most `fuel` of them
RECURSIVE Chain(_, _, _)
Chain(objs, r, fuel) ==
    IF fuel = 0 \/ r \notin DOMAIN objs THEN <<>>
    ELSE IF "Next" \in DOMAIN objs[r]
         THEN <<r>> \o Chain(objs, objs[r]["Next"], fuel - 1)
         ELSE <<r>>

\* the outline root of a written document
RootOf(d) == d.catalog["Outlines"]

\* the items of a written document, from First along Next
ItemsOf(d, N) == Chain(d.objs, d.objs[RootOf(d)]["First"], N + 1)

\* C1: for every non-empty list of N bookmarks addBookmarksToPdf returns
\* for, the items are one doubly linked chain: following Next from First
\* visits exactly N distinct items, in input order; item i has Prev = item
\* i-1 (none for the first), Next = item i+1 (none for the last) and
\* Parent = the root, whatever its level.
C1_SiblingChain ==
    \A c \in Calls :
        (Returned(c) /\ Len(bookmarkData[c]) > 0) =>
            LET d == outFile[c]
                N == Len(bookmarkData[c])
            IN  /\ "Outlines" \in DOMAIN d.catalog
                /\ RootOf(d) \in DOMAIN d.objs
                /\ "First" \in DOMAIN d.objs[RootOf(d)]
                /\ LET chain == ItemsOf(d, N)
                   IN  /\ Len(chain) = N
                       /\ Cardinality({chain[i] : i \in 1..Len(chain)}) = N
                       /\ \A i \in 1..Len(chain) :
                            LET item == d.objs[chain[i]]
                            IN  /\ item["Parent"] = RootOf(d)
                                /\ item["Title"] = ContextObjString(bookmarkData[c][i].title)
                                /\ ("Prev" \in DOMAIN item) = (i > 1)
                                /\ i > 1 => item["Prev"] = chain[i - 1]
                                /\ ("Next" \in DOMAIN item) = (i < N)
                                /\ i < N => item["Next"] = chain[i + 1]

\* a document with three items of different levels was written
C1_Witness ==
    \E c \in Calls :
        /\ Returned(c)
        /\ Len(bookmarkData[c]) = 3
        /\ bookmarkData[c][1].level # bookmarkData[c][2].level
        /\ Len(ItemsOf(outFile[c], 3)) = 3

\* C2: for N > 0 bookmarks, after addBookmarksToPdf the catalog's Outlines
\* entry is the root, whose First is the reference of item 0 (the item
\* without Prev, titled as bookmarks[0]), whose Last is the reference of
\* item N-1 (the item without Next, titled as the last bookmark), and whose
\* Count is N.
C2_RootFirstLastCount ==
    \A c \in Calls :
        (Returned(c) /\ Len(bookmarkData[c]) > 0) =>
            LET d == outFile[c]
                N == Len(bookmarkData[c])
                n == pdfBuffer[c]
            IN  /\ "Outlines" \in DOMAIN d.catalog
                /\ RootOf(d) = OutlineRef(n)
                /\ RootOf(d) \in DOMAIN d.objs
                /\ LET root == d.objs[RootOf(d)]
                   IN  /\ root["Type"] = "Outlines"
                       /\ root["Count"] = N
                       /\ root["First"] = ItemRef(n, 0)
                       /\ root["Last"] = ItemRef(n, N - 1)
                       /\ root["First"] \in DOMAIN d.objs
                       /\ root["Last"] \in DOMAIN d.objs
                       /\ "Prev" \notin DOMAIN d.objs[root["First"]]
                       /\ "Next" \notin DOMAIN d.objs[root["Last"]]
                       /\ d.objs[root["First"]]["Title"]
                            = ContextObjString(bookmarkData[c][1].title)
                       /\ d.objs[root["Last"]]["Title"]
                            = ContextObjString(bookmarkData[c][N].title)

\* mdToPdf wrote a document with two bookmarks
C2_Witness ==
    \E c \in Calls :
        /\ Returned(c)
        /\ entry[c] = "mdToPdf"
        /\ Len(bookmarkData[c]) = 2
        /\ outFile[c].objs[RootOf(outFile[c])]["Count"] = 2

\* C3: with no bookmark (N = 0) the file written holds the pages page.pdf
\* rendered and nothing else: no outline root, no item object, no Outlines
\* key in the catalog; both when mdToPdf writes the buffer itself and when
\* addBookmarksToPdf is called with an empty list.
C3_NoOutlineWhenEmpty ==
    \A c \in Calls :
        (pc[c] = "done" /\ Len(bookmarkData[c]) = 0) =>
            LET d == outFile[c]
            IN  /\ d.written
                /\ "Outlines" \notin DOMAIN d.catalog
                /\ Len(d.pages) = pdfBuffer[c]
                /\ DOMAIN d.objs = {d.pages[k] : k \in 1..Len(d.pages)}
                /\ \A r \in DOMAIN d.objs : d.objs[r]["Type"] = "Page"

\* addBookmarksToPdf was called with an empty list and has returned
C3_Witness ==
    \E c \in Calls :
        /\ pc[c] = "done"
        /\ entry[c] = "addBookmarksToPdf"
        /\ Len(bookmarkData[c]) = 0
        /\ outFile[c].written

\* mdToPdf found no heading and wrote the buffer without the synthesizer
C3_BypassReached ==
    \E c \in Calls :
        /\ pc[c] = "done"
        /\ entry[c] = "mdToPdf"
        /\ Len(bookmarkData[c]) = 0
        /\ outFile[c].written

-----------------------------------------------------------------------------
(* Properties of the heading list                                          *)

IsHeading(tok) == tok.kind = "heading"

\* the records of the heading tokens of call c's document, in document order
OwnHeadings(c) ==
    LET hs == SelectSeq(md[c], IsHeading)
    IN  [k \in 1..Len(hs) |->
           [level |-> hs[k].level, text |-> hs[k].raw, id |-> AnchorId(hs[k].raw)]]

\* bookmark b is a heading of call c's document
OwnBookmark(c, b) ==
    \E k \in DOMAIN md[c] :
        IsHeading(md[c][k]) /\ md[c][k].raw = b.title /\ md[c][k].level = b.level

\* C4: when mdToPdf calls run one after another in one process, the heading
\* list of a call holds the headings of that call's document only, whatever
\* list the call found on entry, and every bookmark of the call is a heading
\* of its own document. A call whose input could not be read has no
\* document and is left out.
C4_NoLeakBetweenCalls ==
    \A c \in Calls :
        (entry[c] = "mdToPdf" /\ pc[c] # "idle" /\ error[c] # "readFileSync") =>
            /\ headings = OwnHeadings(c)
            /\ \A i \in DOMAIN bookmarkData[c] : OwnBookmark(c, bookmarkData[c][i])

\* a later call measures its headings after an earlier call left other ones
C4_Witness ==
    \E c \in Calls :
        /\ entry[c] = "mdToPdf"
        /\ pc[c] = "evaluate"
        /\ onEntry[c] # <<>>
        /\ onEntry[c] # OwnHeadings(c)
        /\ Len(bookmarkData[c]) > 0

\* the titles of the own headings whose anchor the page of call c holds
FoundOwnTitles(c) ==
    LET own == OwnHeadings(c)
        IsFound(h) == Found(c, h.id)
        hs == SelectSeq(own, IsFound)
    IN  [k \in 1..Len(hs) |-> hs[k].text]

\* C5: with two calls in progress at the same time, the list a call reads
\* while it measures is the list of its own document, and when its loop has
\* ended its bookmarks are its own located headings, none lost, none gained.
C5_PerCallHeadings ==
    \A c \in Calls :
        /\ (entry[c] = "mdToPdf" /\ pc[c] = "evaluate") => headings = OwnHeadings(c)
        /\ (entry[c] = "mdToPdf" /\ pc[c] \in {"pdf", "close", "bookmarks", "done"}) =>
              [i \in 1..Len(bookmarkData[c]) |-> bookmarkData[c][i].title]
                = FoundOwnTitles(c)

\* C6: after parsing a document with H headings the heading list has exactly
\* H records, the k-th being the level, raw text and anchor id of the k-th
\* heading of the document.
C6_HeadingsCaptured ==
    \A c \in Calls :
        (entry[c] = "mdToPdf" /\ pc[c] = "launch") =>
            LET hs == SelectSeq(md[c], IsHeading)
            IN  /\ Len(headings) = Len(hs)
                /\ \A k \in 1..Len(hs) :
                     /\ headings[k].level = hs[k].level
                     /\ headings[k].text = hs[k].raw
                     /\ headings[k].id = AnchorId(hs[k].raw)

\* a document with three headings and other blocks between has been parsed
C6_Witness ==
    \E c \in Calls :
        /\ entry[c] = "mdToPdf"
        /\ pc[c] = "launch"
        /\ Len(headings) = 3
        /\ Len(md[c]) > 3
        /\ headings[1].level # headings[3].level

-----------------------------------------------------------------------------
(* Properties of the page locator                                          *)

\* floor(offset / pageHeight) clamped into [0, pageCount - 1]
Clamped(v, top, n) == Min(Max(0, top \div PageHeight(v)), n - 1)

\* C7: the page selected for every bookmark is pages[k] with
\* k = floor(offset / pageHeight) clamped into [0, pageCount - 1], in both
\* variants, for negative offsets and offsets beyond the last page too.
C7_IndexClamped ==
    \A c \in Calls :
        \A i \in DOMAIN targetIdx[c] :
            /\ targetIdx[c][i] \in 0..(pdfBuffer[c] - 1)
            /\ targetIdx[c][i] = Clamped(variant, bookmarkData[c][i].top, pdfBuffer[c])

\* C8: the page index is monotonic in the offset: of two bookmarks of one
\* document, the one measured lower on the page flow never gets the smaller
\* index.
C8_Monotonic ==
    \A c \in Calls :
        \A i, j \in DOMAIN targetIdx[c] :
            bookmarkData[c][i].top < bookmarkData[c][j].top
                => targetIdx[c][i] <= targetIdx[c][j]

\* two bookmarks with different offsets got different page indexes
C8_Witness ==
    \E c \in Calls :
        \E i, j \in DOMAIN targetIdx[c] :
            /\ pc[c] = "done"
            /\ bookmarkData[c][i].top < bookmarkData[c][j].top
            /\ targetIdx[c][i] < targetIdx[c][j]

\* call c converted '# Title / ## Sub', located both headings, and
\* addBookmarksToPdf has run on them
TitleSubLocated(c) ==
    /\ entry[c] = "mdToPdf"
    /\ md[c] = DocTitleSub
    /\ browser[c] = "closed"
    /\ pc[c] \in {"done", "failed"}
    /\ Len(bookmarkData[c]) = 2

\* C9 as stated: whenever 'Sub' is measured beyond one page height its page
\* index is >= 1 and that of 'Title' is 0, for every page count.
C9_SubOnLaterPage_AsStated ==
    \A c \in Calls :
        (TitleSubLocated(c) /\ bookmarkData[c][2].top > PageHeight(variant)) =>
            /\ Len(targetIdx[c]) = 2
            /\ targetIdx[c][1] = 0
            /\ targetIdx[c][2] >= 1

\* C9 amended: whenever 'Title' is measured within the first page height,
\* 'Sub' beyond one page height, and the document has at least two pages,
\* the page index of 'Sub' is >= 1 and that of 'Title' is 0.
C9_SubOnLaterPage ==
    \A c \in Calls :
        (/\ TitleSubLocated(c)
         /\ bookmarkData[c][2].top > PageHeight(variant)
         /\ bookmarkData[c][1].top \in 0..(PageHeight(variant) - 1)
         /\ pdfBuffer[c] >= 2) =>
            /\ pc[c] = "done"
            /\ Len(targetIdx[c]) = 2
            /\ targetIdx[c][1] = 0
            /\ targetIdx[c][2] >= 1

\* 'Title' on the first page, 'Sub' beyond it, in a document of two pages
C9_Witness ==
    \E c \in Calls :
        /\ TitleSubLocated(c)
        /\ bookmarkData[c][2].top > PageHeight(variant)
        /\ bookmarkData[c][1].top \in 1..(PageHeight(variant) - 1)
        /\ pdfBuffer[c] = 2
        /\ targetIdx[c] = <<0, 1>>

-----------------------------------------------------------------------------
(* Properties of the render-complete signal                                *)

-----------------------------------------------------------------------------
(* C11: the wait for the signal is bounded                                 *)

\* the script of the page has run to its end without the signal and without
\* a timer that would still set it
NeverReady(p) ==
    p.content /\ p.math # "pending" /\ ~p.timer /\ ~ReadySignal(p)

TimedOut(c) == pc[c] = "failed" /\ error[c] = "TimeoutError"

\* C11: a wait on a page that never sets the signal ends, after the timeout
\* of the variant (30 s server, 60 s cli), in a conversion failed with a
\* TimeoutError; no wait stays pending for ever; a conversion that timed out
\* has written no output file
C11_WaitBounded ==
    /\ \A c \in Sequential :
         (pc[c] = "wait" /\ NeverReady(page[c])) ~> TimedOut(c)
    /\ \A c \in Sequential : (pc[c] = "wait") ~> (pc[c] # "wait")
    /\ [](\A c \in Sequential :
            TimedOut(c) => /\ ~outFile[c].written
                           /\ waited[c] = WaitTimeoutMs(variant))

C11_Witness ==
    /\ variant = "cli"
    /\ TimedOut("A")
    /\ NeverReady(page["A"])
    /\ waited["A"] = WaitTimeoutCli
    /\ ~outFile["A"].written

-----------------------------------------------------------------------------
(* C12: the browser of a failed conversion                                 *)

\* the conversion failed at an await after puppeteer.launch had resolved and
\* other than browser.close itself
FailedAfterLaunch(c) ==
    /\ entry[c] = "mdToPdf"
    /\ pc[c] = "failed"
    /\ error[c] \in {"setContent", "TimeoutError", "evaluate", "pdf",
                     "TypeError"}

\* C12: whenever a conversion has timed out or failed after the browser was
\* launched, browser.close has been executed and the browser is not running
C12_BrowserClosedOnFailure ==
    \A c \in Calls : FailedAfterLaunch(c) => browser[c] = "closed"

-----------------------------------------------------------------------------
(* C13: two headings with the same anchor id                               *)

\* the Title objects of the outline written by call c, from First along Next
OutlineTitles(c) ==
    LET d == outFile[c]
        chain == ItemsOf(d, Len(bookmarkData[c]))
    IN  [i \in 1..Len(chain) |-> d.objs[chain[i]]["Title"]]

\* C13: a document with two headings of the same raw text 'Notes', hence the
\* same anchor id, converts without error and its outline holds one entry
\* for 'Notes', not one for each of the two headings
C13_DuplicateAnchorOnce ==
    \A c \in Calls :
        (entry[c] = "mdToPdf" /\ md[c] = DocNotes /\ Returned(c)
           /\ Len(bookmarkData[c]) > 0) =>
                Cardinality({i \in DOMAIN OutlineTitles(c) :
                    OutlineTitles(c)[i] = ContextObjString(NotesText)}) <= 1

-----------------------------------------------------------------------------
(* C14: headings whose anchor is not in the page                           *)

\* the page of call c holds an element whose id attribute is this id
AnchorInPage(c, id) ==
    id # <<>> /\ \E k \in DOMAIN html[c] : html[c][k].id = id

\* title and level of the first n own headings whose anchor is in the page
LocatedAmong(c, n) ==
    LET own == SubSeq(OwnHeadings(c), 1, n)
        InPage(h) == AnchorInPage(c, h.id)
        hs == SelectSeq(own, InPage)
    IN  [k \in 1..Len(hs) |-> [title |-> hs[k].text, level |-> hs[k].level]]

TitleLevel(bookmarks) ==
    [i \in 1..Len(bookmarks) |->
       [title |-> bookmarks[i].title, level |-> bookmarks[i].level]]

\* C14: a heading whose anchor the page does not hold gives no bookmark and
\* no error: while the loop runs the bookmarks are the located ones among
\* the headings visited so far, and when it has ended they are exactly the
\* sub-sequence of the headings whose anchor was found, in document order
C14_LocatedSubsequence ==
    \A c \in Sequential :
        /\ (entry[c] = "mdToPdf" /\ pc[c] = "evaluate") =>
              TitleLevel(bookmarkData[c]) = LocatedAmong(c, iter[c] - 1)
        /\ (entry[c] = "mdToPdf"
              /\ pc[c] \in {"pdf", "close", "bookmarks", "done"}) =>
              TitleLevel(bookmarkData[c])
                = LocatedAmong(c, Len(OwnHeadings(c)))

\* a conversion whose first heading has no anchor in the page has returned
\* with the other heading as its only bookmark
C14_Witness ==
    /\ entry["A"] = "mdToPdf"
    /\ md["A"] = DocEmptyHeading
    /\ Returned("A")
    /\ error["A"] = "none"
    /\ ~AnchorInPage("A", OwnHeadings("A")[1].id)
    /\ Len(bookmarkData["A"]) = 1
    /\ bookmarkData["A"][1].title = SubText

-----------------------------------------------------------------------------
(* C15: titles read back from the outline                                  *)

\* the text a reader gets from a Title object: the decoded name
ReadTitle(obj) == DecodeName(obj.of)

\* C15: the titles read back from the written outline, from First along
\* Next, equal character for character the heading texts of the bookmarks,
\* non-ASCII ones included
C15_TitlesRoundTrip ==
    \A c \in Calls :
        (Returned(c) /\ Len(bookmarkData[c]) > 0) =>
            /\ Len(OutlineTitles(c)) = Len(bookmarkData[c])
            /\ \A i \in DOMAIN OutlineTitles(c) :
                 ReadTitle(OutlineTitles(c)[i]) = bookmarkData[c][i].title

\* the titles without a character above U+00FF and without '#' do come back
C15_Latin1RoundTrip ==
    \A c \in Calls :
        (Returned(c) /\ Len(bookmarkData[c]) > 0) =>
            \A i \in DOMAIN OutlineTitles(c) :
                LET t == bookmarkData[c][i].title
                IN  (\A k \in DOMAIN t : CharCode(t[k]) < 256 /\ t[k] # "#") =>
                        ReadTitle(OutlineTitles(c)[i]) = t

-----------------------------------------------------------------------------
(* C16: code blocks are HTML-escaped                                       *)

IsCode(tok) == tok.kind = "code"
IsCodeElement(el) == el.tag = "code"

Special == {"&", "<", ">", "U+0022", "'"}

StartsWith(s, pre) == Len(s) >= Len(pre) /\ SubSeq(s, 1, Len(pre)) = pre

\* the text an HTML parser reads from escaped text: each of the five
\* entities stands for its character
RECURSIVE Unescape(_)
Unescape(s) ==
    IF s = <<>> THEN <<>>
    ELSE IF \E ch \in Special : StartsWith(s, Entity(ch))
         THEN LET ch == CHOOSE x \in Special : StartsWith(s, Entity(x))
              IN  <<ch>> \o Unescape(SubSeq(s, Len(Entity(ch)) + 1, Len(s)))
         ELSE <<Head(s)>> \o Unescape(Tail(s))

\* none of < > " ' is in the text, and every & begins one of the entities
NoRawSpecial(s) ==
    \A i \in DOMAIN s :
        /\ s[i] \notin (Special \ {"&"})
        /\ s[i] = "&" =>
              \E ch \in Special : StartsWith(SubSeq(s, i, Len(s)), Entity(ch))

CodeEscaped(c) ==
    LET toks == SelectSeq(md[c], IsCode)
        els == SelectSeq(html[c], IsCodeElement)
    IN  /\ Len(els) = Len(toks)
        /\ \A k \in DOMAIN els :
             /\ NoRawSpecial(els[k].inner)
             /\ Unescape(els[k].inner) = toks[k].raw

\* C16: in both variants the HTML emitted for a fenced code block holds none
\* of & < > " ' raw: each is replaced by its entity, once, so that reading
\* the entities back gives the code (no double escaping)
C16_CodeEscaped ==
    \A c \in Sequential :
        (entry[c] = "mdToPdf" /\ pc[c] = "launch") => CodeEscaped(c)

\* the cli variant alone does escape
C16_CliCodeEscaped ==
    \A c \in Sequential :
        (variant = "cli" /\ entry[c] = "mdToPdf" /\ pc[c] = "launch") =>
            CodeEscaped(c)

C16_CliReached ==
    /\ variant = "cli"
    /\ pc["A"] = "launch"
    /\ md["A"] = <<Code(<<"&", "a", "m", "p", ";">>)>>
    /\ html["A"][1].inner
         = <<"&", "a", "m", "p", ";", "a", "m", "p", ";">>

-----------------------------------------------------------------------------
(* C17: anchor ids                                                         *)

IsHeadingElement(el) == el.tag = "h"

\* the raw text lower-cased, with each maximal run of characters outside
\* [A-Za-z0-9_] giving one '-': a word character gives itself, the first
\* character of a run gives '-', the other characters of a run give nothing
IdByRuns(raw) ==
    LET low == [i \in 1..Len(raw) |-> ToLowerChar(raw[i])]
        idx == [i \in 1..Len(raw) |-> i]
        Emits(i) == IsWord(low[i]) \/ i = 1 \/ IsWord(low[i - 1])
        kept == SelectSeq(idx, Emits)
    IN  [k \in 1..Len(kept) |->
           IF IsWord(low[kept[k]]) THEN low[kept[k]] ELSE "-"]

\* C17: the anchor id of a heading is its raw text lower-cased with every
\* maximal run of non-word characters replaced by one '-'; the id in the
\* heading record is the id attribute of the heading element; headings of
\* equal raw text keep their equal ids, one record and one element each
C17_AnchorId ==
    \A c \in Sequential :
        (entry[c] = "mdToPdf" /\ pc[c] = "launch") =>
            LET toks == SelectSeq(md[c], IsHeading)
                els == SelectSeq(html[c], IsHeadingElement)
            IN  /\ Len(headings) = Len(toks)
                /\ Len(els) = Len(toks)
                /\ \A k \in DOMAIN toks :
                     /\ headings[k].id = IdByRuns(toks[k].raw)
                     /\ els[k].id = headings[k].id

\* two headings of the same text, with a run of two non-word characters,
\* were rendered: both have the id with one '-'
C17_Witness ==
    /\ pc["A"] = "launch"
    /\ md["A"] = <<H(1, <<" ", "!">>), H(2, <<" ", "!">>)>>
    /\ Len(headings) = 2
    /\ headings[1].id = <<"-">>
    /\ headings[2].id = <<"-">>
    /\ html["A"][2].id = <<"-">>

-----------------------------------------------------------------------------
(* C18: the phases of a conversion                                         *)

\* Pending: the call has begun; Rendering: marked.parse (4.1); Measuring:
\* the browser, from puppeteer.launch to browser.close (4.2); Synthesizing:
\* addBookmarksToPdf (4.3 and 4.4)
InOrder == <<"Pending", "Rendering", "Measuring", "Synthesizing">>

\* the trails that follow the order: a prefix of the four phases, alone or
\* followed by Failed, or all four followed by Done
OrderedTrails ==
    {SubSeq(InOrder, 1, n) : n \in 0..4}
      \cup {Append(SubSeq(InOrder, 1, n), "Failed") : n \in 1..4}
      \cup {Append(InOrder, "Done")}

\* Measuring left for Done, without Synthesizing
Bypass == <<"Pending", "Rendering", "Measuring", "Done">>

\* the terminal states are where the trail says, and only there
TrailMatchesPc(c) ==
    /\ (pc[c] = "done") = (Len(trail[c]) > 0 /\ trail[c][Len(trail[c])] = "Done")
    /\ (pc[c] = "failed") =
         (Len(trail[c]) > 0 /\ trail[c][Len(trail[c])] = "Failed")

\* C18 as stated: every conversion goes through Pending, Rendering,
\* Measuring, Synthesizing in that order, without skipping or returning,
\* and ends in Done or Failed; Done only from Synthesizing
C18_PhasesInOrder_AsStated ==
    \A c \in Sequential :
        entry[c] = "mdToPdf" =>
            /\ trail[c] \in OrderedTrails
            /\ TrailMatchesPc(c)

\* C18: every conversion goes through Pending, Rendering, Measuring,
\* Synthesizing in that order, without returning to an earlier phase, and
\* ends in Done or Failed; Done is reached from Synthesizing when a heading
\* was located, and from Measuring, with Synthesizing skipped, exactly when
\* none was
C18_PhasesInOrder ==
    \A c \in Sequential :
        entry[c] = "mdToPdf" =>
            /\ trail[c] \in OrderedTrails \cup {Bypass}
            /\ TrailMatchesPc(c)
            /\ trail[c] = Bypass => Len(bookmarkData[c]) = 0
            /\ trail[c] = Append(InOrder, "Done") => Len(bookmarkData[c]) > 0

\* a conversion with located headings has gone through all four phases and
\* is Done
C18_Witness ==
    /\ entry["A"] = "mdToPdf"
    /\ trail["A"] = Append(InOrder, "Done")
    /\ Returned("A")
    /\ Len(bookmarkData["A"]) > 0

\* a conversion without a located heading is Done without Synthesizing
C18_BypassReached ==
    /\ entry["A"] = "mdToPdf"
    /\ trail["A"] = Bypass
    /\ Returned("A")

-----------------------------------------------------------------------------
(* C19: a failed conversion exposes no output                              *)

\* C19: a conversion that failed, at whichever step, has written no output
\* file, the output file being written only by the step that ends the
\* conversion; the converter process then exits with a code other than 0;
\* and a request with a failed conversion is answered 500 without any PDF
C19_NoOutputOnFailure ==
    /\ pc[Child] = "failed" => ~outFile[Child].written
    /\ outFile[Child].written => pc[Child] = "done"
    /\ (srv.child = "closed" /\ srv.code # "null") =>
          (srv.code = "0") = (pc[Child] = "done")
    /\ (srv.child = "closed" /\ srv.code = "1") => srv.i \notin srv.disk
    /\ srv.failed # {} =>
          /\ srv.pc = "responded"
          /\ srv.response = "500"
          /\ srv.body = {}
    /\ srv.response \in {"pdf", "zip"} =>
          /\ srv.failed = {}
          /\ srv.pc = "responded" => srv.body \subseteq srv.disk

\* the second file of a request failed at the outline construction, on a
\* destination page that does not exist, after the first was converted:
\* the request was answered 500
C19_Witness ==
    /\ srv.files = 2
    /\ srv.outputFiles = <<1>>
    /\ srv.failed = {2}
    /\ error[Child] = "TypeError"
    /\ srv.code = "1"
    /\ srv.response = "500"
    /\ 2 \notin srv.disk

-----------------------------------------------------------------------------
(* C20: the wall-clock budget of a conversion                              *)

-----------------------------------------------------------------------------
(* C21: the files of a request are deleted                                 *)

\* C21: once a request has ended, after a complete or a cut answer or after
\* a failed conversion, none of its uploaded files is left in the uploads
\* directory and none of its PDFs nor its ZIP in the outputs directory
C21_AllFilesDeleted ==
    RequestEnded(srv) =>
        /\ srv.uploads = {}
        /\ srv.disk = {}
        /\ ~srv.zip

\* the requests whose streamed answer ended do leave nothing
C21_StreamedCleaned ==
    srv.pc = "ended" =>
        /\ srv.uploads = {}
        /\ srv.disk = {}
        /\ ~srv.zip

C21_StreamedReached ==
    /\ srv.pc = "ended"
    /\ srv.response = "zip"
    /\ srv.files = 2

-----------------------------------------------------------------------------
(* C22: one PDF for one file, one ZIP for several                          *)

\* the uploaded files 1..n in upload order
UploadOrder(n) == [k \in 1..n |-> k]

\* C22: a request with one file is answered with the PDF of that file; a
\* request with two or more files is answered with one ZIP holding one PDF
\* per uploaded file; the files are converted one after another in upload
\* order; and if a conversion failed no PDF and no ZIP is sent
C22_OnePdfOrOneZip ==
    /\ srv.response = "pdf" =>
          /\ srv.files = 1
          /\ srv.body = {1}
          /\ srv.entries = <<>>
    /\ srv.response = "zip" =>
          /\ srv.files >= 2
          /\ srv.entries = UploadOrder(srv.files)
          /\ srv.body = 1..srv.files
    /\ srv.pc \in {"loop", "await"} =>
          /\ srv.outputFiles = UploadOrder(srv.i - 1)
          /\ srv.response = "none"
    /\ srv.failed # {} => srv.response \notin {"pdf", "zip"}

\* a request of two files is being answered with the ZIP of both
C22_Witness ==
    /\ srv.pc = "responded"
    /\ srv.response = "zip"
    /\ srv.entries = <<1, 2>>
    /\ srv.settled = <<"resolved", "resolved">>

-----------------------------------------------------------------------------
(* C25: no dangling reference in the outline                               *)

\* the references a dictionary of the outline stores
StoredRefs(dict) ==
    {dict[k] : k \in DOMAIN dict \cap {"First", "Last", "Parent", "Prev", "Next"}}

\* C25: in every document written with an outline of N items, the N + 1
\* references of the outline are pairwise distinct and differ from those of
\* the loaded document; all were allocated before the first item object was
\* assigned, and each was assigned exactly once; and every reference stored
\* (Outlines of the catalog, First, Last, Parent, Prev, Next, the page of
\* Dest) resolves to an object of the document, the page of Dest to a page
C25_NoDanglingReference ==
    \A c \in Calls :
        (outFile[c].written /\ "Outlines" \in DOMAIN outFile[c].catalog) =>
            LET doc == outFile[c]
                n == pdfBuffer[c]
                N == Len(bookmarkData[c])
                ops == ContextOps(n, N)
                allocs == {k \in DOMAIN ops : ops[k].op = "nextRef"}
                assigns == {k \in DOMAIN ops : ops[k].op = "assign"}
                new == {ops[k].ref : k \in allocs}
            IN  /\ Cardinality(new) = N + 1
                /\ Cardinality(allocs) = N + 1
                /\ new \cap (1..n) = {}
                /\ \A a \in allocs : \A b \in assigns : a < b
                /\ {ops[k].ref : k \in assigns} = new
                /\ Cardinality(assigns) = N + 1
                /\ DOMAIN doc.objs = (1..n) \cup new
                /\ doc.catalog["Outlines"] \in new
                /\ \A r \in new :
                     /\ StoredRefs(doc.objs[r]) \subseteq new
                     /\ "Dest" \in DOMAIN doc.objs[r] =>
                           /\ doc.objs[r]["Dest"][1] \in Range(doc.pages)
                           /\ doc.objs[r]["Dest"][1] \in DOMAIN doc.objs

\* a document of two pages was written with an outline of at least two
\* items, one of them pointing to the second page
C25_Witness ==
    \E c \in Calls :
        /\ pc[c] = "done"
        /\ outFile[c].written
        /\ "Outlines" \in DOMAIN outFile[c].catalog
        /\ pdfBuffer[c] = 2
        /\ Len(bookmarkData[c]) >= 2
        /\ \E r \in DOMAIN outFile[c].objs :
             /\ "Dest" \in DOMAIN outFile[c].objs[r]
             /\ outFile[c].objs[r]["Dest"][1] = PageRef(1)

-----------------------------------------------------------------------------
(* C26: the signal is set whatever the typesetting steps do                *)

\* C26: once the script of the page has run, with no timer of it pending,
\* the signal is set: also when the math step threw, when Prism.highlightAll
\* threw, or when Prism or KaTeX were not loaded; so that no wait is left to
\* its timeout by a typesetting step that raised
C26_SignalAlwaysSet ==
    \A c \in Calls :
        (page[c].content /\ page[c].math # "pending" /\ ~page[c].timer)
            => page[c].ready

\* the server variant sets the signal in its finally block on every path
C26_ServerSignalSet ==
    \A c \in Calls :
        (variant = "server" /\ page[c].content /\ page[c].math # "pending")
            => page[c].ready

C26_ServerThrewReached ==
    \E c \in Calls :
        /\ variant = "server"
        /\ page[c].hl = "threw"
        /\ page[c].ready

-----------------------------------------------------------------------------
(* C23: the size limit of the client                                       *)

RECURSIVE TotalSize(_)
TotalSize(files) ==
    IF files = <<>> THEN 0 ELSE Head(files).size + TotalSize(Tail(files))

\* C23: the sizes of the files selected in the client never add up to more
\* than FileHandler.MAX_MB (50 MB)
C23_TotalWithinLimit == TotalSize(client.selectedFiles) <= MAX_MB

\* what the code does enforce: no selected file alone is above the limit
C23_EachWithinLimit ==
    \A i \in DOMAIN client.selectedFiles :
        client.selectedFiles[i].size <= MAX_MB

C23_TwoSelected ==
    /\ Len(client.selectedFiles) = 2
    /\ client.picks = 1

-----------------------------------------------------------------------------
(* C27: one conversion request at a time                                   *)

\* the requests of converter.convert that have not settled
InFlight == {k \in DOMAIN client.reqs : client.reqs[k].state = "pending"}

\* C27: the client has at most one conversion request in flight, and while
\* one is in flight the convert button is disabled, whatever files are
\* added or removed meanwhile
C27_OneRequestInFlight ==
    /\ Cardinality(InFlight) <= 1
    /\ InFlight # {} => client.disabled

\* handleConvert itself does disable the button before it sends the request
C27_DisabledAtSend ==
    client.last.ev = "handleConvert" =>
        /\ client.disabled
        /\ client.last.id \in InFlight

C27_SendReached ==
    /\ client.last.ev = "handleConvert"
    /\ client.last.id = 2
    /\ InFlight = {2}

-----------------------------------------------------------------------------
(* C29: how a file leaves selectedFiles                                    *)

\* C29: the reset that follows a successful conversion empties
\* selectedFiles only of files that conversion included: a file selected
\* afterwards is not removed by the delayed reset of the earlier conversion
C29_ResetRemovesOnlyConverted ==
    client.last.ev = "reset" =>
        /\ client.reqs[client.last.id].state = "ok"
        /\ \A i \in DOMAIN client.last.removed :
             client.last.removed[i] \in Range(client.reqs[client.last.id].files)

\* the reset does follow a successful conversion only, and empties the list
C29_ResetAfterSuccess ==
    client.last.ev = "reset" =>
        /\ client.reqs[client.last.id].state = "ok"
        /\ client.selectedFiles = <<>>

C29_ResetReached ==
    /\ client.last.ev = "reset"
    /\ client.last.removed # <<>>
    /\ client.picks = 1

-----------------------------------------------------------------------------
(* C30: the simulated progress                                             *)

Settled(k) == k \in DOMAIN client.reqs /\ client.reqs[k].state # "pending"

\* C30: once a conversion has settled, with success or failure, its
\* interval is cleared and no later tick of it changes the bar; while the
\* conversion is pending its ticks never lower the bar nor raise it above
\* 80; and the bar is at 100 only after a success
C30_ProgressStopsWhenSettled ==
    /\ \A k \in DOMAIN client.reqs : Settled(k) => k \notin client.live
    /\ (client.last.ev = "tick" /\ Settled(client.last.id))
          => client.bar = client.last.bar
    /\ (client.last.ev = "tick" /\ ~Settled(client.last.id))
          => (client.bar >= client.last.bar /\ client.bar <= 80)
    /\ client.bar = 100 => \E k \in DOMAIN client.reqs : client.reqs[k].state = "ok"

\* what does hold: a tick sets the bar to at most 80, and the bar is at 100
\* only after a request resolved
C30_BarBounded ==
    /\ client.last.ev = "tick" => client.bar <= 80
    /\ \A k \in DOMAIN client.progress : client.progress[k] <= 80
    /\ client.bar = 100 =>
          \E k \in DOMAIN client.reqs : client.reqs[k].state = "ok"

C30_HeldAtEighty ==
    /\ client.last.ev = "tick"
    /\ client.bar = 80
    /\ client.live = {}

\* a single request that failed: its interval is still running
C30_FailedStillTicking ==
    /\ Len(client.reqs) = 1
    /\ client.reqs[1].state = "failed"
    /\ client.last.ev = "tick"
    /\ client.bar # client.last.bar

-----------------------------------------------------------------------------
(* C24: what the server accepts                                            *)

\* request r holds a file the server accepted: stored, converting or
\* converted
Accepted(r) ==
    up.req[r].pc \in {"stored", "converting"} \/ up.req[r].answer = "pdf"

\* C24: the server accepts an upload only if its extension is .md or
\* .markdown and its MIME type is in the allowed list; a file with another
\* extension is refused with the error of the file filter and is never
\* converted
C24_BothChecks ==
    \A r \in Requests :
        /\ Accepted(r) =>
              /\ isValidExt(up.req[r].file)
              /\ up.req[r].file.mimetype \in ALLOWED_MIMETYPES
        /\ (up.req[r].pc # "idle" /\ ~isValidExt(up.req[r].file)) =>
              /\ up.req[r].answer = "INVALID_FILE_TYPE"
              /\ up.req[r].outputPath = <<>>

\* what the filter does enforce: a refused file failed both tests and is
\* not converted, an accepted one passed one of them
C24_EitherCheck ==
    \A r \in Requests :
        /\ Accepted(r) =>
              isValidExt(up.req[r].file) \/ isValidMime(up.req[r].file)
        /\ up.req[r].answer = "INVALID_FILE_TYPE" =>
              /\ ~isValidExt(up.req[r].file)
              /\ ~isValidMime(up.req[r].file)
              /\ up.req[r].outputPath = <<>>

C24_RefusedReached ==
    \E r \in Requests :
        /\ up.req[r].answer = "INVALID_FILE_TYPE"
        /\ up.req[r].file.mimetype = "application/octet-stream"

-----------------------------------------------------------------------------
(* C28: the paths of concurrent conversions                                *)

\* C28: two requests whose files are on the server at the same time never
\* have the same upload path, and two conversions running at the same time
\* never write to the same output path
C28_DistinctPaths ==
    \A r1, r2 \in Requests :
        r1 # r2 =>
            /\ (/\ up.req[r1].pc \in {"stored", "converting"}
                /\ up.req[r2].pc \in {"stored", "converting"})
                  => up.req[r1].uploadPath # up.req[r2].uploadPath
            /\ (up.req[r1].pc = "converting" /\ up.req[r2].pc = "converting")
                  => up.req[r1].outputPath # up.req[r2].outputPath

\* conversions started in different milliseconds do use different paths
C28_DistinctWhenLater ==
    \A r1, r2 \in Requests :
        (/\ r1 # r2
         /\ up.req[r1].pc = "converting"
         /\ up.req[r2].pc = "converting"
         /\ up.req[r1].outputPath[1] # up.req[r2].outputPath[1])
            => up.req[r1].outputPath # up.req[r2].outputPath

C28_BothConverting ==
    /\ up.req["r1"].pc = "converting"
    /\ up.req["r2"].pc = "converting"
    /\ up.req["r1"].outputPath[1] # up.req["r2"].outputPath[1]
    /\ up.req["r1"].outputPath[2] = up.req["r2"].outputPath[2]

=============================================================================
